---- MODULE Spec2Model ----
(***************************************************************************)
(* tmux-focus-zoom: the layout codec (ParseLayout / BuildLayout), the zoom *)
(* transform (ApplyZoomToLayout / applyNestedZoom) and the toggle / apply  *)
(* orchestration, modelled from the Go sources.                            *)
(*                                                                         *)
(* Layout texts are sequences of one-character strings.  LayoutNode values *)
(* live on a heap (a sequence of node records, address = index, 0 = nil),  *)
(* because the transform works by in-place mutation of a copied tree.      *)
(***************************************************************************)
EXTENDS Integers, Sequences, FiniteSets, TLC

(***************************************************************************)
(* Characters, bytes and the strconv / fmt conversions                     *)
(***************************************************************************)

Digits == <<"0", "1", "2", "3", "4", "5", "6", "7", "8", "9">>

HexDigits == <<"0", "1", "2", "3", "4", "5", "6", "7", "8", "9",
               "a", "b", "c", "d", "e", "f">>

DigitChars == {Digits[i] : i \in 1..10}

DigitVals == [c \in DigitChars |-> (CHOOSE i \in 1..10 : Digits[i] = c) - 1]

IsDigit(c) == c \in DigitChars

DigitVal(c) == DigitVals[c]

\* the ASCII codes of the characters of layout texts
AsciiCodes ==
  [c \in DigitChars
          \cup {"+", ",", "-", "[", "]", "a", "b", "c", "d", "e", "f", "x",
                "{", "}"} |->
     CASE c \in DigitChars -> 48 + DigitVals[c]
       [] c = "+" -> 43
       [] c = "," -> 44
       [] c = "-" -> 45
       [] c = "[" -> 91
       [] c = "]" -> 93
       [] c = "a" -> 97
       [] c = "b" -> 98
       [] c = "c" -> 99
       [] c = "d" -> 100
       [] c = "e" -> 101
       [] c = "f" -> 102
       [] c = "x" -> 120
       [] c = "{" -> 123
       [] c = "}" -> 125]

\* uint16(s[i])
ByteOf(c) == AsciiCodes[c]

\* Go's integer division truncates toward zero
GoDiv(a, b) ==
  IF (a >= 0) = (b > 0) THEN (IF a >= 0 THEN a \div b ELSE (-a) \div (-b))
  ELSE -((IF a >= 0 THEN a ELSE -a) \div (IF b > 0 THEN b ELSE -b))

\* strings.Index(s, c): 1-based position of the first c in s, 0 when absent
Index(s, c) ==
  IF \E i \in 1..Len(s) : s[i] = c
  THEN CHOOSE i \in 1..Len(s) : s[i] = c /\ \A j \in 1..(i - 1) : s[j] # c
  ELSE 0

\* the scanning loops of parseNode: first position holding a character of
\* stops, Len(s) + 1 when there is none
ScanTo(s, stops) ==
  IF \E i \in 1..Len(s) : s[i] \in stops
  THEN CHOOSE i \in 1..Len(s) :
         s[i] \in stops /\ \A j \in 1..(i - 1) : s[j] \notin stops
  ELSE Len(s) + 1

\* s[i:] and s[:i] with 1-based i
From(s, i) == SubSeq(s, i, Len(s))

Upto(s, i) == SubSeq(s, 1, i)

RECURSIVE DigitsVal(_)
DigitsVal(s) ==
  IF Len(s) = 0 THEN 0
  ELSE 10 * DigitsVal(Upto(s, Len(s) - 1)) + DigitVal(s[Len(s)])

\* strconv.Atoi: an optional sign followed by at least one decimal digit
Atoi(s) ==
  LET signed == Len(s) > 0 /\ s[1] \in {"+", "-"}
      body   == IF signed THEN Tail(s) ELSE s
  IN IF Len(body) = 0 \/ \E i \in 1..Len(body) : ~IsDigit(body[i])
     THEN [ok |-> FALSE, val |-> 0]
     ELSE [ok |-> TRUE,
           val |-> IF signed /\ s[1] = "-" THEN -DigitsVal(body)
                   ELSE DigitsVal(body)]

RECURSIVE NatStr(_)
NatStr(n) ==
  IF n < 10 THEN <<Digits[n + 1]>>
  ELSE NatStr(n \div 10) \o <<Digits[(n % 10) + 1]>>

\* fmt "%d"
Itoa(n) == IF n < 0 THEN <<"-">> \o NatStr(-n) ELSE NatStr(n)

\* fmt "%04x" of a uint16
Hex4(n) ==
  <<HexDigits[((n \div 4096) % 16) + 1], HexDigits[((n \div 256) % 16) + 1],
    HexDigits[((n \div 16) % 16) + 1], HexDigits[(n % 16) + 1]>>

(***************************************************************************)
(* LayoutNode and the heap                                                 *)
(***************************************************************************)

SplitNone == 0

SplitHorizontal == 1

SplitVertical == 2

Nil == 0

\* &LayoutNode{PaneID: -1}
NewNode ==
  [Width |-> 0, Height |-> 0, X |-> 0, Y |-> 0, PaneID |-> -1,
   SplitType |-> SplitNone, Children |-> <<>>]

(***************************************************************************)
(* Layout codec: ParseLayout                                               *)
(***************************************************************************)

ParseFail(h) == [err |-> TRUE, node |-> Nil, rest |-> <<>>, heap |-> h]

RECURSIVE parseNode(_, _)
RECURSIVE parseChildren(_, _, _, _)

\* the for loop of parseChildren; children is the slice built so far
parseChildren(s, endChar, children, h) ==
  IF Len(s) > 0 /\ s[1] # endChar
  THEN LET r == parseNode(s, h) IN
       IF r.err THEN [err |-> TRUE, children |-> <<>>, rest |-> <<>>,
                      heap |-> r.heap]
       ELSE parseChildren(
              IF Len(r.rest) > 0 /\ r.rest[1] = "," THEN Tail(r.rest)
              ELSE r.rest,
              endChar, Append(children, r.node), r.heap)
  ELSE [err |-> FALSE, children |-> children,
        rest |-> IF Len(s) > 0 /\ s[1] = endChar THEN Tail(s) ELSE s,
        heap |-> h]

\* the part of parseNode after the y position has been read: n is the
\* address of the node under construction, s the text that follows y
parseTail(s, n, h) ==
  IF Len(s) = 0 THEN [err |-> FALSE, node |-> n, rest |-> <<>>, heap |-> h]
  ELSE CASE s[1] \in {"{", "["} ->
              LET split == IF s[1] = "{" THEN SplitHorizontal
                           ELSE SplitVertical
                  r == parseChildren(Tail(s), IF s[1] = "{" THEN "}" ELSE "]",
                                     <<>>, h)
              IN IF r.err THEN ParseFail(r.heap)
                 ELSE [err |-> FALSE, node |-> n, rest |-> r.rest,
                       heap |-> [r.heap EXCEPT ![n].SplitType = split,
                                               ![n].Children = r.children]]
         [] s[1] = "," ->
              LET t      == Tail(s)
                  endIdx == ScanTo(t, {",", "}", "]"})
                  paneID == Atoi(Upto(t, endIdx - 1))
              IN IF ~paneID.ok THEN ParseFail(h)
                 ELSE [err |-> FALSE, node |-> n, rest |-> From(t, endIdx),
                       heap |-> [h EXCEPT ![n].PaneID = paneID.val,
                                          ![n].SplitType = SplitNone]]
         [] s[1] \in {"}", "]"} ->
              [err |-> FALSE, node |-> n, rest |-> s, heap |-> h]
         [] OTHER -> ParseFail(h)

parseNode(s, h) ==
  LET n    == Len(h) + 1
      h0   == Append(h, NewNode)
      xIdx == Index(s, "x")
  IN IF xIdx = 0 THEN ParseFail(h0)
     ELSE
     LET width == Atoi(Upto(s, xIdx - 1))
         s1    == From(s, xIdx + 1)
         c1    == Index(s1, ",")
     IN IF ~width.ok \/ c1 = 0 THEN ParseFail(h0)
        ELSE
        LET height == Atoi(Upto(s1, c1 - 1))
            s2     == From(s1, c1 + 1)
            c2     == Index(s2, ",")
        IN IF ~height.ok \/ c2 = 0 THEN ParseFail(h0)
           ELSE
           LET x      == Atoi(Upto(s2, c2 - 1))
               s3     == From(s2, c2 + 1)
               endIdx == ScanTo(s3, {",", "{", "[", "}", "]"})
               y      == Atoi(Upto(s3, endIdx - 1))
           IN IF ~x.ok \/ ~y.ok THEN ParseFail(h0)
              ELSE parseTail(From(s3, endIdx), n,
                     [h0 EXCEPT ![n].Width = width.val,
                                ![n].Height = height.val,
                                ![n].X = x.val, ![n].Y = y.val])

\* ParseLayout(layout) on heap h: [err, node, heap]
ParseLayout(layout, h) ==
  LET idx == Index(layout, ",") IN
  IF idx = 0 THEN [err |-> TRUE, node |-> Nil, heap |-> h]
  ELSE LET r == parseNode(From(layout, idx + 1), h)
       IN [err |-> r.err, node |-> r.node, heap |-> r.heap]

(***************************************************************************)
(* Layout codec: BuildLayout                                               *)
(***************************************************************************)

RECURSIVE buildNodeString(_, _)
RECURSIVE joinChildren(_, _, _)

\* strings.Join(childStrs, ",") over the children from position i on
joinChildren(h, kids, i) ==
  IF i > Len(kids) THEN <<>>
  ELSE (IF i > 1 THEN <<",">> ELSE <<>>)
       \o buildNodeString(h, kids[i]) \o joinChildren(h, kids, i + 1)

\* buildNodeString writing a width-split with the brackets of a height-split
buildNodeStringBrackets(h, n) ==
  LET base == Itoa(h[n].Width) \o <<"x">> \o Itoa(h[n].Height) \o <<",">>
              \o Itoa(h[n].X) \o <<",">> \o Itoa(h[n].Y)
  IN CASE h[n].SplitType = SplitNone ->
            base \o <<",">> \o Itoa(h[n].PaneID)
       [] h[n].SplitType \in {SplitHorizontal, SplitVertical} ->
            base \o <<"[">> \o joinChildren(h, h[n].Children, 1) \o <<"]">>
       [] OTHER -> base

buildNodeString(h, n) ==
  LET base == Itoa(h[n].Width) \o <<"x">> \o Itoa(h[n].Height) \o <<",">>
              \o Itoa(h[n].X) \o <<",">> \o Itoa(h[n].Y)
  IN CASE h[n].SplitType = SplitNone ->
            base \o <<",">> \o Itoa(h[n].PaneID)
       [] h[n].SplitType = SplitHorizontal ->
            base \o <<"{">> \o joinChildren(h, h[n].Children, 1) \o <<"}">>
       [] h[n].SplitType = SplitVertical ->
            base \o <<"[">> \o joinChildren(h, h[n].Children, 1) \o <<"]">>
       [] OTHER -> base

\* checksumStep shifting instead of rotating: the low bit is lost
checksumStepShift(csum, c) == ((csum \div 2) + ByteOf(c)) % 65536

\* one iteration of the loop of calculateChecksum on the uint16 csum:
\* rotate right, then add the byte
checksumStep(csum, c) ==
  ((((csum \div 2) + ((csum % 2) * 32768)) % 65536) + ByteOf(c)) % 65536

RECURSIVE checksumRange(_, _, _, _)
\* the loop of calculateChecksum over the bytes lo..hi of s, in order (the
\* range is halved, and the first half computed before the second is
\* entered, to keep the evaluation shallow)
checksumRange(s, lo, hi, csum) ==
  IF lo > hi THEN csum
  ELSE IF lo = hi THEN checksumStep(csum, s[lo])
  ELSE LET first == checksumRange(s, lo, (lo + hi) \div 2, csum)
       IN IF first >= 0
          THEN checksumRange(s, ((lo + hi) \div 2) + 1, hi, first)
          ELSE first

calculateChecksum(s) == Hex4(checksumRange(s, 1, Len(s), 0))

BuildLayout(h, n) ==
  LET body == buildNodeString(h, n)
  IN calculateChecksum(body) \o <<",">> \o body

ExampleLayout ==
  <<"b","2","d","9",",","2","5","5","x","6","1",",","0",",","0","{",
    "8","4","x","6","1",",","0",",","0","[","8","4","x","3","0",",","0",",",
    "0",",","2","6",",","8","4","x","3","0",",","0",",","3","1",",","4","1",
    "]",",","8","5","x","6","1",",","8","5",",","0",",","3","6",",","8","4",
    "x","6","1",",","1","7","1",",","0",",","4","2","}">>

(***************************************************************************)
(* Tree queries                                                            *)
(***************************************************************************)

RECURSIVE containsPane(_, _, _)
containsPane(h, n, paneID) ==
  \/ h[n].PaneID = paneID
  \/ \E i \in 1..Len(h[n].Children) : containsPane(h, h[n].Children[i], paneID)

RECURSIVE countPanesFrom(_, _, _)
RECURSIVE countPanes(_, _)
\* the children counted instead of their panes
countChildren(h, kids, i) == Len(kids) - (i - 1)

\* the for loop of countPanes from child i on
countPanesFrom(h, kids, i) ==
  IF i > Len(kids) THEN 0
  ELSE countPanes(h, kids[i]) + countPanesFrom(h, kids, i + 1)

countPanes(h, n) ==
  IF n = Nil THEN 0
  ELSE IF h[n].SplitType = SplitNone THEN 1
  ELSE countPanesFrom(h, h[n].Children, 1)

\* activeChild with the index starting at the first child instead of -1
activeChildFirst(h, n, paneID) ==
  LET kids == h[n].Children IN
  IF \E i \in 1..Len(kids) : containsPane(h, kids[i], paneID)
  THEN CHOOSE i \in 1..Len(kids) :
         /\ containsPane(h, kids[i], paneID)
         /\ \A j \in 1..(i - 1) : ~containsPane(h, kids[j], paneID)
  ELSE IF Len(kids) > 0 THEN 1 ELSE 0

\* index of the first child of n whose subtree contains paneID, 0 when none
\* (the search loops of ApplyZoomToLayout and applyNestedZoom; Go's -1)
activeChild(h, n, paneID) ==
  LET kids == h[n].Children IN
  IF \E i \in 1..Len(kids) : containsPane(h, kids[i], paneID)
  THEN CHOOSE i \in 1..Len(kids) :
         /\ containsPane(h, kids[i], paneID)
         /\ \A j \in 1..(i - 1) : ~containsPane(h, kids[j], paneID)
  ELSE 0

(***************************************************************************)
(* copyLayoutNode                                                          *)
(***************************************************************************)

RECURSIVE copyLayoutNode(_, _)
RECURSIVE copyChildren(_, _, _, _)

\* the append loop of copyLayoutNode: copies child i.. of src under result r
copyChildren(h, kids, i, r) ==
  IF i > Len(kids) THEN h
  ELSE LET c == copyLayoutNode(h, kids[i])
       IN copyChildren(
            [c.heap EXCEPT ![r].Children = Append(@, c.node)], kids, i + 1, r)

\* copyLayoutNode copying the node but sharing its children with the source
copyLayoutNodeShallow(h, n) ==
  IF n = Nil THEN [heap |-> h, node |-> Nil]
  ELSE [heap |-> Append(h, h[n]), node |-> Len(h) + 1]

\* copyLayoutNode leaving SplitType out of the copied fields
copyLayoutNodeNoSplitType(h, n) ==
  IF n = Nil THEN [heap |-> h, node |-> Nil]
  ELSE LET r  == Len(h) + 1
           h0 == Append(h, [h[n] EXCEPT !.Children = <<>>,
                                        !.SplitType = SplitNone])
       IN [heap |-> copyChildren(h0, h[n].Children, 1, r), node |-> r]

\* returns [heap, node]: the heap after the copy and the address of the copy
copyLayoutNode(h, n) ==
  IF n = Nil THEN [heap |-> h, node |-> Nil]
  ELSE LET r  == Len(h) + 1
           h0 == Append(h, [h[n] EXCEPT !.Children = <<>>])
       IN [heap |-> copyChildren(h0, h[n].Children, 1, r), node |-> r]

(***************************************************************************)
(* Geometry transformer                                                    *)
(***************************************************************************)

RECURSIVE updateChildWidths(_, _, _)
RECURSIVE updateChildWidthsFrom(_, _, _, _)

\* updateChildWidths leaving the descendants' widths alone
updateChildWidthsOwn(h, n, width, i) == h

\* the for loop of updateChildWidths from child i on
updateChildWidthsFrom(h, n, width, i) ==
  IF i > Len(h[n].Children) THEN h
  ELSE updateChildWidthsFrom(
         IF h[n].SplitType = SplitVertical
         THEN updateChildWidths(h, h[n].Children[i], width) ELSE h,
         n, width, i + 1)

updateChildWidths(h, n, width) ==
  updateChildWidthsFrom([h EXCEPT ![n].Width = width], n, width, 1)

RECURSIVE updateChildHeights(_, _, _)
RECURSIVE updateChildHeightsFrom(_, _, _, _)

\* the for loop of updateChildHeights from child i on
updateChildHeightsFrom(h, n, height, i) ==
  IF i > Len(h[n].Children) THEN h
  ELSE updateChildHeightsFrom(
         IF h[n].SplitType = SplitHorizontal
         THEN updateChildHeights(h, h[n].Children[i], height) ELSE h,
         n, height, i + 1)

updateChildHeights(h, n, height) ==
  updateChildHeightsFrom([h EXCEPT ![n].Height = height], n, height, 1)

RECURSIVE SumSeq(_)
SumSeq(s) == IF Len(s) = 0 THEN 0 ELSE Head(s) + SumSeq(Tail(s))

\* newSizes without the rounding adjustment
newSizesNoAdjust(sizes, size, activeIdx, zoomPercent) ==
  LET n         == Len(sizes)
      available == size - (n - 1)
      target    == GoDiv(available * zoomPercent, 100)
      other     == SumSeq([i \in 1..n |-> IF i = activeIdx THEN 0
                                          ELSE sizes[i]])
      remaining == available - target
  IN [i \in 1..n |->
        IF i = activeIdx THEN target
        ELSE IF other > 0 THEN GoDiv(sizes[i] * remaining, other)
        ELSE GoDiv(remaining, n - 1)]

\* newSizes giving the active child the share meant for the others
newSizesInverted(sizes, size, activeIdx, zoomPercent) ==
  LET n         == Len(sizes)
      available == size - (n - 1)
      target    == GoDiv(available * (100 - zoomPercent), 100)
      other     == SumSeq([i \in 1..n |-> IF i = activeIdx THEN 0
                                          ELSE sizes[i]])
      remaining == available - target
      dist      == [i \in 1..n |->
                      IF i = activeIdx THEN target
                      ELSE IF other > 0
                           THEN GoDiv(sizes[i] * remaining, other)
                           ELSE GoDiv(remaining, n - 1)]
      used      == SumSeq(dist)
  IN IF used # available
     THEN [dist EXCEPT ![activeIdx] = @ + (available - used)]
     ELSE dist

\* the distribution loop shared by applyHorizontalZoom / applyVerticalZoom:
\* sizes are the children's current sizes along the split axis, size the
\* node's own; the result is newWidths / newHeights after the rounding
\* adjustment
newSizes(sizes, size, activeIdx, zoomPercent) ==
  LET n         == Len(sizes)
      available == size - (n - 1)
      target    == GoDiv(available * zoomPercent, 100)
      other     == SumSeq([i \in 1..n |-> IF i = activeIdx THEN 0
                                          ELSE sizes[i]])
      remaining == available - target
      dist      == [i \in 1..n |->
                      IF i = activeIdx THEN target
                      ELSE IF other > 0
                           THEN GoDiv(sizes[i] * remaining, other)
                           ELSE GoDiv(remaining, n - 1)]
      used      == SumSeq(dist)
  IN IF used # available
     THEN [dist EXCEPT ![activeIdx] = @ + (available - used)]
     ELSE dist

RECURSIVE applyWidths(_, _, _, _, _)
\* "Apply new widths and update X positions", from child i on
applyWidths(h, n, newWidths, i, currentX) ==
  IF i > Len(h[n].Children) THEN h
  ELSE LET c == h[n].Children[i]
       IN applyWidths(
            updateChildWidths(
              [h EXCEPT ![c].Width = newWidths[i], ![c].X = currentX],
              c, newWidths[i]),
            n, newWidths, i + 1, currentX + newWidths[i] + 1)

applyHorizontalZoom(h, n, activeIdx, zoomPercent) ==
  IF Len(h[n].Children) <= 1 THEN h
  ELSE applyWidths(h, n,
         newSizes([i \in 1..Len(h[n].Children) |-> h[h[n].Children[i]].Width],
                  h[n].Width, activeIdx, zoomPercent),
         1, h[n].X)

RECURSIVE applyHeights(_, _, _, _, _)
\* "Apply new heights and update Y positions", from child i on
applyHeights(h, n, newHeights, i, currentY) ==
  IF i > Len(h[n].Children) THEN h
  ELSE LET c == h[n].Children[i]
       IN applyHeights(
            updateChildHeights(
              [h EXCEPT ![c].Height = newHeights[i], ![c].Y = currentY],
              c, newHeights[i]),
            n, newHeights, i + 1, currentY + newHeights[i] + 1)

applyVerticalZoom(h, n, activeIdx, zoomPercent) ==
  IF Len(h[n].Children) <= 1 THEN h
  ELSE applyHeights(h, n,
         newSizes([i \in 1..Len(h[n].Children) |-> h[h[n].Children[i]].Height],
                  h[n].Height, activeIdx, zoomPercent),
         1, h[n].Y)

\* "Apply zoom based on split type"
applyZoomAt(h, n, activeIdx, zoomPercent) ==
  IF h[n].SplitType = SplitHorizontal
  THEN applyHorizontalZoom(h, n, activeIdx, zoomPercent)
  ELSE IF h[n].SplitType = SplitVertical
  THEN applyVerticalZoom(h, n, activeIdx, zoomPercent)
  ELSE h

\* returns [heap, node]: node is the root of the zoomed copy
ApplyZoomToLayout(h, n, activePaneID, zoomPercent) ==
  LET c   == copyLayoutNode(h, n)
      idx == activeChild(c.heap, c.node, activePaneID)
  IN IF idx = 0 THEN c
     ELSE [heap |-> applyZoomAt(c.heap, c.node, idx, zoomPercent),
           node |-> c.node]

RECURSIVE applyNestedZoom(_, _, _, _)
applyNestedZoom(h, n, activePaneID, zoomPercent) ==
  LET i == activeChild(h, n, activePaneID) IN
  IF i = 0 THEN h
  ELSE LET child == h[n].Children[i]
           j     == activeChild(h, child, activePaneID)
       IN IF Len(h[child].Children) > 1 /\ j > 0
          THEN applyNestedZoom(applyZoomAt(h, child, j, zoomPercent),
                               child, activePaneID, zoomPercent)
          ELSE h

\* ApplyZoom, "Apply zoom to the layout tree" and "Also apply vertical zoom":
\* the whole zoom transform.  Returns [heap, node].
Resize(h, n, activePaneID, zoomPercent) ==
  LET z == ApplyZoomToLayout(h, n, activePaneID, zoomPercent)
  IN [heap |-> applyNestedZoom(z.heap, z.node, activePaneID, zoomPercent),
      node |-> z.node]

(***************************************************************************)
(* Reading trees off the heap (used to state properties)                   *)
(***************************************************************************)

RECURSIVE TreeOf(_, _)
\* the tree rooted at n as a value: the node's fields with the children
\* replaced by their trees
TreeOf(h, n) ==
  [h[n] EXCEPT !.Children = [i \in 1..Len(h[n].Children) |->
                               TreeOf(h, h[n].Children[i])]]

RECURSIVE Reach(_, _)
\* the addresses of the nodes of the tree rooted at n
Reach(h, n) ==
  IF n = Nil THEN {}
  ELSE {n} \cup UNION {Reach(h, h[n].Children[i]) :
                         i \in 1..Len(h[n].Children)}

(***************************************************************************)
(* The host's windows: the layouts tmux reports as #{window_layout}        *)
(***************************************************************************)

MaxWidth == 9

MaxHeight == 6

MaxBias == 1

Leaf(id) == [t |-> "L", id |-> id]

HSplit(kids) == [t |-> "H", kids |-> kids]

VSplit(kids) == [t |-> "V", kids |-> kids]

\* the arrangements of panes a window goes through in the model
Shapes ==
  << Leaf(0),
     HSplit(<<Leaf(0), Leaf(1)>>),
     VSplit(<<Leaf(0), Leaf(1)>>),
     HSplit(<<Leaf(0), Leaf(1), Leaf(2)>>),
     HSplit(<<VSplit(<<Leaf(0), Leaf(1)>>), Leaf(2), Leaf(3)>>),
     HSplit(<<Leaf(0), VSplit(<<Leaf(1), Leaf(2)>>)>>),
     HSplit(<<VSplit(<<HSplit(<<Leaf(0), Leaf(1)>>), Leaf(2)>>), Leaf(3)>>),
     VSplit(<<Leaf(0), HSplit(<<Leaf(1), Leaf(2)>>)>>) >>

\* how the host divides available cells among n cells: evenly, the first
\* cells taking the remainder, then bias cells moved from the last cell to
\* the first
cellSizes(available, n, bias) ==
  [i \in 1..n |->
     (available \div n) + (IF i <= available % n THEN 1 ELSE 0)
     + (IF n >= 2 /\ i = 1 THEN bias ELSE 0)
     - (IF n >= 2 /\ i = n THEN bias ELSE 0)]

RECURSIVE dumpCell(_, _, _, _, _, _)
RECURSIVE dumpCells(_, _, _, _, _, _, _, _)

\* the children of a split cell from child i on; sizes along the split axis
dumpCells(shape, sizes, i, w, h, x, y, bias) ==
  IF i > Len(shape.kids) THEN <<>>
  ELSE (IF i > 1 THEN <<",">> ELSE <<>>)
       \o (IF shape.t = "H"
           THEN dumpCell(shape.kids[i], sizes[i], h, x, y, bias)
                \o dumpCells(shape, sizes, i + 1, w, h, x + sizes[i] + 1, y,
                             bias)
           ELSE dumpCell(shape.kids[i], w, sizes[i], x, y, bias)
                \o dumpCells(shape, sizes, i + 1, w, h, x, y + sizes[i] + 1,
                             bias))

\* the host's dump of one layout cell
dumpCell(shape, w, h, x, y, bias) ==
  LET base == Itoa(w) \o <<"x">> \o Itoa(h) \o <<",">> \o Itoa(x) \o <<",">>
              \o Itoa(y)
  IN CASE shape.t = "L" -> base \o <<",">> \o Itoa(shape.id)
       [] shape.t = "H" ->
            base \o <<"{">>
            \o dumpCells(shape,
                 cellSizes(w - (Len(shape.kids) - 1), Len(shape.kids), bias),
                 1, w, h, x, y, bias)
            \o <<"}">>
       [] shape.t = "V" ->
            base \o <<"[">>
            \o dumpCells(shape,
                 cellSizes(h - (Len(shape.kids) - 1), Len(shape.kids), bias),
                 1, w, h, x, y, bias)
            \o <<"]">>

RECURSIVE cellFits(_, _, _, _)
\* every cell of the arrangement gets at least one column and one row
cellFits(shape, w, h, bias) ==
  /\ w >= 1
  /\ h >= 1
  /\ shape.t # "L" =>
       LET n     == Len(shape.kids)
           sizes == cellSizes((IF shape.t = "H" THEN w ELSE h) - (n - 1), n,
                              bias)
       IN \A i \in 1..n :
            IF shape.t = "H" THEN cellFits(shape.kids[i], sizes[i], h, bias)
            ELSE cellFits(shape.kids[i], w, sizes[i], bias)

\* #{window_layout} of a window of w x h cells
windowLayout(shape, w, h, bias) ==
  LET body == dumpCell(shape, w, h, 0, 0, bias)
  IN calculateChecksum(body) \o <<",">> \o body

WindowLayouts ==
  { windowLayout(Shapes[q[1]], q[2], q[3], q[4]) :
      q \in { r \in (1..Len(Shapes)) \X (3..MaxWidth) \X (3..MaxHeight)
                    \X (0..MaxBias) :
               cellFits(Shapes[r[1]], r[2], r[3], r[4]) } }

\* layouts used by the repository's unit tests (stale "1234" checksums)
TestLayouts ==
  { ExampleLayout,
    <<"1","2","3","4",",","1","0","0","x","5","0",",","0",",","0",",","1">>,
    <<"1","2","3","4",",","1","9","9","x","5","3",",","0",",","0","{",
      "9","9","x","5","3",",","0",",","0",",","1",",","9","9","x","5","3",
      ",","1","0","0",",","0",",","2","}">>,
    <<"1","2","3","4",",","1","0","0","x","1","0","0",",","0",",","0","[",
      "1","0","0","x","4","9",",","0",",","0",",","1",",","1","0","0","x",
      "4","9",",","0",",","5","0",",","2","]">> }

\* texts no host reports but ParseLayout accepts: a split with one child, a
\* root wider than its children, a split without children
OddLayouts ==
  { <<"0",",","5","x","4",",","0",",","0","{","5","x","4",",","0",",","0",
      ",","0","}">>,
    <<"0",",","9","x","4",",","0",",","0","{","3","x","4",",","0",",","0",
      ",","0",",","3","x","4",",","4",",","0",",","1","}">>,
    <<"0",",","5","x","4",",","0",",","0","[","]">> }

(***************************************************************************)
(* State                                                                   *)
(***************************************************************************)

VARIABLES
  pc,        \* stage of the codec / transform pipeline
  text,      \* the layout text handed to ParseLayout
  edited,    \* whether text is a corrupted host layout
  heap,      \* the LayoutNode heap
  inHeap,    \* the heap as ParseLayout left it
  inRoot,    \* ParseLayout's result (Nil after an error)
  target,    \* activePaneID given to the transform
  percent,   \* zoomPercent given to the transform
  outRoot,   \* root of the transform's result
  outText,   \* BuildLayout's result
  reRoot,    \* ParseLayout(outText), Nil after an error
  stateFile, \* the state file: <<>> when missing, else <<State>>
  wins,      \* the host's windows: pane count, layout text, focused pane
  cur,       \* the window the client shows
  option,    \* @focus-zoom-percent as the host prints it
  last,      \* the last run of a handler, NoRun after a move of the user
  faults,    \* runs in which a call failed
  since,     \* history since the last enable: the text captured, the
             \* window, windows whose panes changed, file edited
  procs      \* the plugin's processes that run side by side: where each
             \* is in its handler and what it has read so far

pipeVars ==
  <<pc, text, edited, heap, inHeap, inRoot, target, percent, outRoot,
    outText, reRoot>>

hostVars == <<stateFile, wins, cur, option, last, faults, since, procs>>

vars == <<pipeVars, hostVars>>

MinZoomPercent == 10

MaxZoomPercent == 95

\* characters an edit may put in place of another
EditChars == {",", "{", "}", "[", "]", "x", "-", "0"}

RECURSIVE leafIDs(_, _)
\* pane ids of the leaves below n
leafIDs(h, n) ==
  IF h[n].SplitType = SplitNone THEN {h[n].PaneID}
  ELSE UNION {leafIDs(h, h[n].Children[i]) : i \in 1..Len(h[n].Children)}

\* a pane id no pane of the tree has (the focused pane was just closed)
stalePaneID(h, n) ==
  1 + CHOOSE m \in leafIDs(h, n) \cup {0} :
        \A k \in leafIDs(h, n) \cup {0} : k <= m

(***************************************************************************)
(* The host: windows, panes, the option and the commands it is handed      *)
(***************************************************************************)

\* the windows of the session
Windows == {1, 2}

sessionName(w) == <<"m", "a", "i", "n">>

windowIndex(w) == IF w = 1 THEN <<"0">> ELSE <<"1">>

\* the arrangements window w goes through as panes are split off and exit
HostShapes(w) ==
  IF w = 1
  THEN << Leaf(0),
          HSplit(<<Leaf(0), Leaf(1)>>),
          HSplit(<<Leaf(0), VSplit(<<Leaf(1), Leaf(2)>>)>>) >>
  ELSE << Leaf(3) >>

RECURSIVE shapeLeaves(_)
\* the pane ids of an arrangement, in layout order
shapeLeaves(shape) ==
  IF shape.t = "L" THEN <<shape.id>>
  ELSE LET RECURSIVE from(_)
           from(i) == IF i > Len(shape.kids) THEN <<>>
                      ELSE shapeLeaves(shape.kids[i]) \o from(i + 1)
       IN from(1)

\* the pane counts window w goes through
paneCounts(w) ==
  {Len(shapeLeaves(HostShapes(w)[i])) : i \in 1..Len(HostShapes(w))}

\* the arrangement of window w when it has n panes
hostShape(w, n) ==
  HostShapes(w)[CHOOSE i \in 1..Len(HostShapes(w)) :
                  Len(shapeLeaves(HostShapes(w)[i])) = n]

\* ids of the n panes of window w (ids are unique in the server)
paneIDs(w, n) == shapeLeaves(hostShape(w, n))

\* window w as the session starts
firstWindow(w) ==
  LET ids == shapeLeaves(HostShapes(w)[1])
  IN [panes  |-> Len(ids),
      layout |-> windowLayout(HostShapes(w)[1], MaxWidth, MaxHeight, 0),
      active |-> ids[1]]

\* window w right after the host laid out n panes, the given pane focused
hostWindow(w, n, focused) ==
  [panes  |-> n,
   layout |-> windowLayout(hostShape(w, n), MaxWidth, MaxHeight, 0),
   active |-> focused]

RECURSIVE layoutCheck(_, _)
\* the host's consistency check of a parsed layout: cells of at least one
\* column and row; the children of a split fill it along its axis, one
\* border per gap, and span it across
layoutCheck(h, n) ==
  LET kids == h[n].Children IN
  /\ h[n].Width >= 1
  /\ h[n].Height >= 1
  /\ h[n].SplitType # SplitNone =>
       /\ Len(kids) >= 1
       /\ IF h[n].SplitType = SplitHorizontal
          THEN /\ SumSeq([i \in 1..Len(kids) |-> h[kids[i]].Width])
                    + (Len(kids) - 1) = h[n].Width
               /\ \A i \in 1..Len(kids) : h[kids[i]].Height = h[n].Height
          ELSE /\ SumSeq([i \in 1..Len(kids) |-> h[kids[i]].Height])
                    + (Len(kids) - 1) = h[n].Height
               /\ \A i \in 1..Len(kids) : h[kids[i]].Width = h[n].Width
       /\ \A i \in 1..Len(kids) : layoutCheck(h, kids[i])

\* the host's verdict on a layout it parsed to p
hostAcceptsParsed(win, layout, p) ==
  /\ Index(layout, ",") = 5
  /\ ~p.err
  /\ countPanes(p.heap, p.node) = win.panes
  /\ layoutCheck(p.heap, p.node)
  /\ Upto(layout, 4) = calculateChecksum(From(layout, 6))

\* select-layout is accepted: the checksum matches the body, the layout
\* parses, has one cell per pane of the window and is consistent
hostAccepts(win, layout) ==
  hostAcceptsParsed(win, layout, ParseLayout(layout, <<>>))

RECURSIVE hostCell(_, _, _, _, _, _)
RECURSIVE hostCells(_, _, _, _, _, _, _)

\* the children of split n from the i-th on, as the host dumps them after
\* it applied a layout: k leaves were dumped before
hostCells(h, n, i, x, y, ids, k) ==
  LET kids == h[n].Children IN
  IF i > Len(kids) THEN <<>>
  ELSE (IF i > 1 THEN <<",">> ELSE <<>>)
       \o hostCell(h, kids[i], x, y, ids, k)
       \o (IF h[n].SplitType = SplitHorizontal
           THEN hostCells(h, n, i + 1, x + h[kids[i]].Width + 1, y, ids,
                          k + countPanes(h, kids[i]))
           ELSE hostCells(h, n, i + 1, x, y + h[kids[i]].Height + 1, ids,
                          k + countPanes(h, kids[i])))

\* a cell of an applied layout: the sizes of the layout, offsets that follow
\* from the sizes, and the window's own panes in order
hostCell(h, n, x, y, ids, k) ==
  LET base == Itoa(h[n].Width) \o <<"x">> \o Itoa(h[n].Height) \o <<",">>
              \o Itoa(x) \o <<",">> \o Itoa(y)
  IN IF h[n].SplitType = SplitNone
     THEN base \o <<",">> \o Itoa(ids[k + 1])
     ELSE base
          \o (IF h[n].SplitType = SplitHorizontal THEN <<"{">> ELSE <<"[">>)
          \o hostCells(h, n, 1, x, y, ids, k)
          \o (IF h[n].SplitType = SplitHorizontal THEN <<"}">> ELSE <<"]">>)

\* the layout text of the window, given the cells it dumps
hostAdoptBody(layout, body) ==
  IF body = From(layout, Index(layout, ",") + 1) THEN layout
  ELSE calculateChecksum(body) \o <<",">> \o body

\* the cells of window w after it applied the layout parsed to p
hostAdoptParsed(w, win, p) ==
  hostCell(p.heap, p.node, 0, 0, paneIDs(w, win.panes), 0)

\* #{window_layout} of window w after it accepted the layout
hostAdopt(w, win, layout) ==
  hostAdoptBody(layout, hostAdoptParsed(w, win, ParseLayout(layout, <<>>)))

RECURSIVE hostPanesFrom(_, _)
\* list-panes: the leaves of the window's layout in order
hostPanesFrom(h, n) ==
  IF h[n].SplitType = SplitNone
  THEN <<[ID |-> h[n].PaneID, Width |-> h[n].Width, Height |-> h[n].Height,
          Left |-> h[n].X, Top |-> h[n].Y]>>
  ELSE LET kids == h[n].Children
           RECURSIVE from(_)
           from(i) == IF i > Len(kids) THEN <<>>
                      ELSE hostPanesFrom(h, kids[i]) \o from(i + 1)
       IN from(1)

\* list-panes of a window whose leaves are ps
hostPanesListed(win, ps) ==
  [i \in 1..Len(ps) |->
     [ID |-> ps[i].ID, Index |-> i - 1, Width |-> ps[i].Width,
      Height |-> ps[i].Height, Left |-> ps[i].Left, Top |-> ps[i].Top,
      Active |-> ps[i].ID = win.active]]

\* the leaves of a parsed layout
hostPanesParsed(p) == hostPanesFrom(p.heap, p.node)

hostPanes(win) ==
  hostPanesListed(win, hostPanesParsed(ParseLayout(win.layout, <<>>)))

(***************************************************************************)
(* State file, host calls and what can fail                                *)
(***************************************************************************)

DefaultZoomPercent == 65

\* &State{}
ZeroState ==
  [Enabled |-> FALSE, Session |-> <<>>, Window |-> <<>>, Snapshot |-> <<>>]

\* the calls to the host and to the file system, in the order the handlers
\* reach them
SiteOrder ==
  << "LoadState",
     "toggle.GetPaneCount", "toggle.RestoreSnapshot", "toggle.ClearState",
     "toggle.DisplayMessage.off",
     "capture.GetCurrentSession", "capture.GetCurrentWindow",
     "capture.GetWindowLayout", "toggle.SaveState",
     "GetPaneCount", "GetCurrentSession", "GetCurrentWindow",
     "GetActivePaneID",
     "fallback.RestoreSnapshot", "fallback.ClearState",
     "fallback.DisplayMessage", "GetPanes", "GetWindowSize.width",
     "GetWindowSize.height", "fallback.GetZoomPercent", "ResizePaneWidth",
     "ResizePaneHeight",
     "resnap.GetCurrentSession", "resnap.GetCurrentWindow",
     "resnap.GetWindowLayout", "resnap.SaveState",
     "GetZoomPercent", "SelectLayout", "RestoreSnapshot",
     "toggle.DisplayMessage.on" >>

siteIdx(site) == CHOOSE i \in 1..Len(SiteOrder) : SiteOrder[i] = site

\* a fault [at, more]: the call at the site fails; the calls after it
\* succeed, or (more) fail as well
NoFault == [at |-> "none", more |-> FALSE]

\* the call at the site succeeds
ok(f, site) ==
  \/ f.at = "none"
  \/ siteIdx(site) < siteIdx(f.at)
  \/ siteIdx(site) > siteIdx(f.at) /\ ~f.more

\* sites after whose failure the handler goes on to further calls
ContinuingSites ==
  {"toggle.GetPaneCount", "toggle.RestoreSnapshot", "toggle.ClearState",
   "fallback.RestoreSnapshot", "fallback.ClearState",
   "fallback.GetZoomPercent", "ResizePaneWidth", "GetZoomPercent",
   "SelectLayout"}

\* runs with a failing call in one behaviour
MaxFaults == 1

\* the faults that make a difference to a run that reaches the given calls
\* when nothing fails; none once MaxFaults runs had one
faultsOn(calls, had) ==
  IF had >= MaxFaults THEN {NoFault}
  ELSE {NoFault}
       \cup {[at |-> calls[i], more |-> FALSE] : i \in 1..Len(calls)}
       \cup {[at |-> calls[i], more |-> TRUE] :
               i \in {j \in 1..Len(calls) : calls[j] \in ContinuingSites}}

\* what a handler works on: the state file (<<>> when missing, else the one
\* JSON object in it), the host's windows, the commands sent so far, the calls
\* made and the calls that failed
World(file, windows) ==
  [file |-> file, wins |-> windows, cmds |-> <<>>, calls |-> <<>>,
   fails |-> <<>>]

\* the call at the site is made
call(m, site, f) ==
  [m EXCEPT !.calls = Append(@, site),
            !.fails = IF ok(f, site) THEN @ ELSE Append(@, site)]

RECURSIVE jsonEscape(_, _)
\* the characters of a Go string from position i on as json.Marshal writes
\* them inside the quotes: a quote and a backslash get a backslash
jsonEscape(s, i) ==
  IF i > Len(s) THEN <<>>
  ELSE (IF s[i] \in {"\"", "\\"} THEN <<"\\", s[i]>> ELSE <<s[i]>>)
       \o jsonEscape(s, i + 1)

\* a Go string as a JSON string
jsonString(s) == <<"\"">> \o jsonEscape(s, 1) \o <<"\"">>

RECURSIVE jsonUnescape(_, _)
\* the Go string a JSON string v holds from position i up to the closing
\* quote
jsonUnescape(v, i) ==
  IF i > Len(v) \/ v[i] = "\"" THEN <<>>
  ELSE IF v[i] = "\\" /\ i < Len(v)
  THEN <<v[i + 1]>> \o jsonUnescape(v, i + 2)
  ELSE <<v[i]>> \o jsonUnescape(v, i + 1)

\* json.MarshalIndent(state, "", "  "): the members of the object, by the
\* keys of the struct tags
jsonMarshal(state) ==
  [enabled  |-> IF state.Enabled THEN "true" ELSE "false",
   session  |-> jsonString(state.Session),
   window   |-> jsonString(state.Window),
   snapshot |-> jsonString(state.Snapshot)]

\* json.Unmarshal(data, &state)
jsonUnmarshal(data) ==
  [Enabled  |-> data.enabled = "true",
   Session  |-> jsonUnescape(data.session, 2),
   Window   |-> jsonUnescape(data.window, 2),
   Snapshot |-> jsonUnescape(data.snapshot, 2)]

\* the error of os.ReadFile or os.Remove on the state file: none, the file
\* does not exist, or the call failed
osError(m, f, site) ==
  IF ~ok(f, site) THEN "failed"
  ELSE IF m.file = <<>> THEN "not exist"
  ELSE "none"

\* LoadState once os.ReadFile returned
LoadStateRead(m, err) ==
  [m |-> m, err |-> err = "failed",
   state |-> IF err = "none" THEN jsonUnmarshal(m.file[1]) ELSE ZeroState]

LoadState(m, f) ==
  LoadStateRead(call(m, "LoadState", f), osError(m, f, "LoadState"))

SaveState(m, state, f, site) ==
  [m |-> IF ok(f, site)
         THEN [call(m, site, f) EXCEPT !.file = <<jsonMarshal(state)>>]
         ELSE call(m, site, f),
   err |-> ~ok(f, site)]

\* ClearState reporting a missing file as an error
ClearStateStrict(m, err) ==
  [m |-> IF err = "none" THEN [m EXCEPT !.file = <<>>] ELSE m,
   err |-> err # "none"]

\* ClearState once os.Remove returned
ClearStateRemoved(m, err) ==
  [m |-> IF err = "none" THEN [m EXCEPT !.file = <<>>] ELSE m,
   err |-> err = "failed"]

ClearState(m, f, site) ==
  ClearStateRemoved(call(m, site, f), osError(m, f, site))

\* a query of the host whose answer is val
TmuxCmd(m, val, f, site) ==
  [m |-> call(m, site, f), err |-> ~ok(f, site),
   val |-> IF ok(f, site) THEN val ELSE 0]

GetPaneCount(m, w, f, site) == TmuxCmd(m, m.wins[w].panes, f, site)

GetCurrentSession(m, w, f, site) == TmuxCmd(m, sessionName(w), f, site)

GetCurrentWindow(m, w, f, site) == TmuxCmd(m, windowIndex(w), f, site)

GetWindowLayout(m, w, f, site) == TmuxCmd(m, m.wins[w].layout, f, site)

\* the id of the window's first pane in place of the focused one
GetFirstPaneID(m, w, f, site) ==
  TmuxCmd(m, paneIDs(w, m.wins[w].panes)[1], f, site)

GetActivePaneID(m, w, f, site) == TmuxCmd(m, m.wins[w].active, f, site)

\* the percent taken from the option without the range check
zoomPercentUnchecked(parsed) ==
  IF ~parsed.ok THEN DefaultZoomPercent ELSE parsed.val

\* the percent in use, given what strconv.Atoi makes of the option
zoomPercentOf(parsed) ==
  IF ~parsed.ok \/ parsed.val < MinZoomPercent
     \/ parsed.val > MaxZoomPercent
  THEN DefaultZoomPercent
  ELSE parsed.val

\* the option as the host prints it; no output when it is not set
GetZoomPercent(m, opt, f, site) ==
  [m |-> call(m, site, f),
   val |-> IF ~ok(f, site) \/ opt = <<>> THEN DefaultZoomPercent
           ELSE zoomPercentOf(Atoi(opt))]

\* a command handed to the host
command(m, cmd, arg, accepted, f, site) ==
  [call(m, site, f) EXCEPT !.cmds = Append(@, [cmd |-> cmd, arg |-> arg,
                                               ok  |-> accepted])]

\* select-layout with the host's verdict known
SelectLayoutChecked(m, w, layout, accepted, f, site) ==
  LET sent == command(m, "select-layout", layout, accepted, f, site)
  IN [m |-> IF accepted
            THEN [sent EXCEPT !.wins[w].layout =
                                 hostAdopt(w, m.wins[w], layout)]
            ELSE sent,
      err |-> ~accepted]

SelectLayout(m, w, layout, f, site) ==
  SelectLayoutChecked(m, w, layout,
                      ok(f, site) /\ hostAccepts(m.wins[w], layout), f, site)

DisplayMessage(m, msg, f, site) ==
  [m |-> command(m, "display-message", <<msg>>, ok(f, site), f, site),
   err |-> ~ok(f, site)]

\* resize-pane -t pane -x/-y size; how the host then lays the window out is
\* left open: the window keeps its layout in the model
ResizePane(m, axis, pane, size, f, site) ==
  command(m, "resize-pane", <<axis, pane, size>>, ok(f, site), f, site)

CaptureSnapshot(m, w, f, sites) ==
  LET session == GetCurrentSession(m, w, f, sites[1]) IN
  IF session.err THEN [m |-> session.m, err |-> TRUE, state |-> ZeroState]
  ELSE LET window == GetCurrentWindow(session.m, w, f, sites[2]) IN
  IF window.err THEN [m |-> window.m, err |-> TRUE, state |-> ZeroState]
  ELSE LET layout == GetWindowLayout(window.m, w, f, sites[3]) IN
  IF layout.err THEN [m |-> layout.m, err |-> TRUE, state |-> ZeroState]
  ELSE [m |-> layout.m, err |-> FALSE,
        state |-> [Enabled |-> TRUE, Session |-> session.val,
                   Window |-> window.val, Snapshot |-> layout.val]]

RestoreSnapshot(m, w, state, f, site) ==
  IF state.Snapshot = <<>> THEN [m |-> m, err |-> FALSE]
  ELSE SelectLayout(m, w, state.Snapshot, f, site)

(***************************************************************************)
(* The degraded path: resize-pane on the live panes                        *)
(***************************************************************************)

\* the values of key (Left or Top) among the panes, ascending
sortedKeys(keys) ==
  LET RECURSIVE asc(_)
      asc(S) == IF S = {} THEN <<>>
                ELSE LET least == CHOOSE a \in S : \A b \in S : a <= b
                     IN <<least>> \o asc(S \ {least})
  IN asc(keys)

RECURSIVE selectPanes(_, _, _)
\* the panes at the given left (top) offset, in list order
selectPanes(panes, left, byLeft) ==
  IF panes = <<>> THEN <<>>
  ELSE (IF (IF byLeft THEN panes[1].Left ELSE panes[1].Top) = left
        THEN <<panes[1]>> ELSE <<>>)
       \o selectPanes(Tail(panes), left, byLeft)

findColumns(panes) ==
  LET lefts == sortedKeys({panes[i].Left : i \in 1..Len(panes)})
  IN [c \in 1..Len(lefts) |->
        [left |-> lefts[c], panes |-> selectPanes(panes, lefts[c], TRUE)]]

findRowsInColumn(columnPanes) ==
  LET tops == sortedKeys({columnPanes[i].Top : i \in 1..Len(columnPanes)})
  IN [r \in 1..Len(tops) |->
        [top |-> tops[r], panes |-> selectPanes(columnPanes, tops[r], FALSE)]]

resizeColumnsProportionally(m, columns, activeIdx, targetWidth, f) ==
  IF Len(columns) <= 1 THEN m
  ELSE ResizePane(m, "-x", columns[activeIdx].panes[1].ID, targetWidth, f,
                  "ResizePaneWidth")

\* resizeRowsProportionally resizing the top row whichever holds the focus
resizeRowsTop(m, rows, activeIdx, targetHeight, f) ==
  IF Len(rows) <= 1 THEN m
  ELSE ResizePane(m, "-y", rows[1].panes[1].ID, targetHeight, f,
                  "ResizePaneHeight")

resizeRowsProportionally(m, rows, activeIdx, targetHeight, f) ==
  IF Len(rows) <= 1 THEN m
  ELSE ResizePane(m, "-y", rows[activeIdx].panes[1].ID, targetHeight, f,
                  "ResizePaneHeight")

\* applyProportionalZoom once the rows of the active column are found
zoomRows(m, colPanes, rows, active, zoomPercent, f) ==
  LET activeRowIdx == CHOOSE r \in 1..Len(rows) : rows[r].top = active.Top
      colHeight    == SumSeq([i \in 1..Len(colPanes) |-> colPanes[i].Height])
                      + (Len(rows) - 1)
      targetHeight == GoDiv(colHeight * zoomPercent, 100)
  IN IF Len(rows) > 1
     THEN resizeRowsProportionally(m, rows, activeRowIdx, targetHeight, f)
     ELSE m

\* applyProportionalZoom after the columns were resized: rows are resized
\* only when the active column holds several panes
zoomActiveColumn(m, colPanes, active, zoomPercent, f) ==
  IF Len(colPanes) > 1
  THEN zoomRows(m, colPanes, findRowsInColumn(colPanes), active,
                zoomPercent, f)
  ELSE m

\* applyProportionalZoom once the columns are found
zoomColumns(m, columns, active, winWidth, zoomPercent, f) ==
  LET targetWidth  == GoDiv(winWidth * zoomPercent, 100)
      activeColIdx == CHOOSE c \in 1..Len(columns) :
                        columns[c].left = active.Left
  IN zoomActiveColumn(
       IF Len(columns) > 1
       THEN resizeColumnsProportionally(m, columns, activeColIdx,
                                        targetWidth, f)
       ELSE m,
       columns[activeColIdx].panes, active, zoomPercent, f)

applyProportionalZoom(m, panes, active, winWidth, winHeight, zoomPercent, f) ==
  zoomColumns(m, findColumns(panes), active, winWidth, zoomPercent, f)

\* what a handler reports: the world it leaves, whether it returns an error,
\* the path it took, and the leaf count of the tree it handed to the
\* transform (-1 when it handed none)
Outcome(m, err, path, leaves) ==
  [m |-> m, err |-> err, path |-> path, leaves |-> leaves]

\* GetWindowSize once #{window_width} is answered
GetWindowSizeHeight(width, height) ==
  [m |-> height.m, err |-> height.err, width |-> width,
   height |-> height.val]

GetWindowSize(m, f) ==
  LET width == TmuxCmd(m, MaxWidth, f, "GetWindowSize.width")
  IN IF width.err
     THEN [m |-> width.m, err |-> TRUE, width |-> 0, height |-> 0]
     ELSE GetWindowSizeHeight(width.val,
            TmuxCmd(width.m, MaxHeight, f, "GetWindowSize.height"))

\* applyZoomFallback from GetZoomPercent on
fallbackZoom(panes, activePane, size, zoomPercent, f) ==
  Outcome(applyProportionalZoom(zoomPercent.m, panes, activePane,
                                size.width, size.height, zoomPercent.val, f),
          FALSE, "fallback", -1)

\* applyZoomFallback once the window size is known
fallbackSized(panes, size, opt, f) ==
  LET actives == {i \in 1..Len(panes) : panes[i].Active} IN
  IF size.err THEN Outcome(size.m, TRUE, "fallback", -1)
  ELSE IF actives = {} THEN Outcome(size.m, FALSE, "fallback", -1)
  ELSE fallbackZoom(panes,
                    panes[CHOOSE i \in actives : \A j \in actives : i <= j],
                    size,
                    GetZoomPercent(size.m, opt, f, "fallback.GetZoomPercent"),
                    f)

\* applyZoomFallback once the panes are listed
fallbackListed(listed, opt, f) ==
  IF listed.err THEN Outcome(listed.m, TRUE, "fallback", -1)
  ELSE fallbackSized(listed.val, GetWindowSize(listed.m, f), opt, f)

applyZoomFallback(m, w, opt, f) ==
  fallbackListed(TmuxCmd(m, hostPanes(m.wins[w]), f, "GetPanes"), opt, f)

(***************************************************************************)
(* ApplyZoom, cmdApply and cmdToggle                                       *)
(***************************************************************************)

\* the snapshot no longer has one leaf per live pane
snapshotStaleNever(snapshotPaneCount, paneCount) == FALSE

\* every apply takes the snapshot for stale and captures the live layout
snapshotStaleAlways(snapshotPaneCount, paneCount) == TRUE

snapshotStale(snapshotPaneCount, paneCount) == snapshotPaneCount # paneCount

\* ApplyZoom removing the record when the host refuses the zoomed layout
zoomLayoutSentClearing(w, state, sel, leaves, f, path) ==
  IF sel.err
  THEN Outcome(ClearState(sel.m, f, "fallback.ClearState").m, TRUE, path,
               leaves)
  ELSE Outcome(sel.m, FALSE, path, leaves)

\* ApplyZoom once select-layout is answered: a refused layout is answered
\* by restoring the snapshot, and the error is returned
zoomLayoutSent(w, state, sel, leaves, f, path) ==
  IF sel.err
  THEN Outcome(RestoreSnapshot(sel.m, w, state, f, "RestoreSnapshot").m,
               TRUE, path, leaves)
  ELSE Outcome(sel.m, FALSE, path, leaves)

\* BuildLayout(zoomedTree)
newLayoutOf(z) == BuildLayout(z.heap, z.node)

\* ApplyZoom once the percent is known: transform the tree, send the layout
zoomLayoutAt(w, state, tree, activePaneID, zoomPercent, f, path) ==
  zoomLayoutSent(w, state,
                 SelectLayout(zoomPercent.m, w,
                              newLayoutOf(Resize(tree.heap, tree.node,
                                                 activePaneID,
                                                 zoomPercent.val)),
                              f, "SelectLayout"),
                 countPanes(tree.heap, tree.node), f, path)

\* ApplyZoom from GetZoomPercent on
zoomLayout(m, w, state, tree, activePaneID, opt, f, path) ==
  zoomLayoutAt(w, state, tree, activePaneID,
               GetZoomPercent(m, opt, f, "GetZoomPercent"), f, path)

\* ApplyZoom once the fresh snapshot is parsed
ApplyZoomReparsed(m, w, state, reparsed, activePaneID, opt, f) ==
  IF reparsed.err THEN Outcome(m, TRUE, "resnapshot", -1)
  ELSE zoomLayout(m, w, state, reparsed, activePaneID, opt, f, "resnapshot")

\* ApplyZoom once the fresh snapshot is saved
ApplyZoomSaved(w, state, newState, saved, activePaneID, opt, f) ==
  IF saved.err THEN Outcome(saved.m, TRUE, "resnapshot", -1)
  ELSE ApplyZoomReparsed(saved.m, w,
                         [state EXCEPT !.Snapshot = newState.Snapshot],
                         ParseLayout(newState.Snapshot, <<>>), activePaneID,
                         opt, f)

\* ApplyZoom once a fresh snapshot is captured
ApplyZoomCaptured(w, state, newState, activePaneID, opt, f) ==
  IF newState.err THEN Outcome(newState.m, TRUE, "resnapshot", -1)
  ELSE ApplyZoomSaved(w, state, newState.state,
                      SaveState(newState.m, newState.state, f,
                                "resnap.SaveState"),
                      activePaneID, opt, f)

\* ApplyZoom going on to the degraded path whatever the host answered
ApplyZoomRestoredOrNot(w, restored, opt, f) ==
  applyZoomFallback(restored.m, w, opt, f)

\* ApplyZoom once the snapshot that does not parse was handed to the host
ApplyZoomRestored(w, restored, opt, f) ==
  IF restored.err
  THEN Outcome(DisplayMessage(
                 ClearState(restored.m, f, "fallback.ClearState").m,
                 "Focus zoom: disabled (layout changed)", f,
                 "fallback.DisplayMessage").m,
               TRUE, "restore failed", -1)
  ELSE applyZoomFallback(restored.m, w, opt, f)

\* ApplyZoom once the snapshot is parsed
ApplyZoomParsed(m, w, state, layoutTree, paneCount, activePaneID, opt, f) ==
  IF layoutTree.err
  THEN ApplyZoomRestored(w, RestoreSnapshot(m, w, state, f,
                                            "fallback.RestoreSnapshot"),
                         opt, f)
  ELSE IF snapshotStale(countPanes(layoutTree.heap, layoutTree.node),
                        paneCount)
  THEN ApplyZoomCaptured(w, state,
                         CaptureSnapshot(m, w, f,
                           <<"resnap.GetCurrentSession",
                             "resnap.GetCurrentWindow",
                             "resnap.GetWindowLayout">>),
                         activePaneID, opt, f)
  ELSE zoomLayout(m, w, state, layoutTree, activePaneID, opt, f, "zoom")

\* ApplyZoom once the active pane is known
ApplyZoomFocused(w, state, paneCount, activePaneID, opt, f) ==
  IF activePaneID.err THEN Outcome(activePaneID.m, TRUE, "query", -1)
  ELSE ApplyZoomParsed(activePaneID.m, w, state,
                       ParseLayout(state.Snapshot, <<>>), paneCount,
                       activePaneID.val, opt, f)

\* ApplyZoom without the comparison of session and window
ApplyZoomInAnyWindow(w, state, paneCount, session, window, opt, f) ==
  IF window.err THEN Outcome(window.m, TRUE, "query", -1)
  ELSE ApplyZoomFocused(w, state, paneCount,
                        GetActivePaneID(window.m, w, f, "GetActivePaneID"),
                        opt, f)

\* ApplyZoom once the window is known
ApplyZoomInWindow(w, state, paneCount, session, window, opt, f) ==
  IF window.err THEN Outcome(window.m, TRUE, "query", -1)
  ELSE IF session # state.Session \/ window.val # state.Window
  THEN Outcome(window.m, FALSE, "other window", -1)
  ELSE ApplyZoomFocused(w, state, paneCount,
                        GetActivePaneID(window.m, w, f, "GetActivePaneID"),
                        opt, f)

\* ApplyZoom once the session is known
ApplyZoomInSession(w, state, paneCount, session, opt, f) ==
  IF session.err THEN Outcome(session.m, TRUE, "query", -1)
  ELSE ApplyZoomInWindow(w, state, paneCount, session.val,
                         GetCurrentWindow(session.m, w, f,
                                          "GetCurrentWindow"),
                         opt, f)

\* ApplyZoom once the panes are counted
ApplyZoomCounted(w, state, paneCount, opt, f) ==
  IF paneCount.err THEN Outcome(paneCount.m, TRUE, "query", -1)
  ELSE IF paneCount.val <= 1
  THEN Outcome(paneCount.m, FALSE, "single pane", -1)
  ELSE ApplyZoomInSession(w, state, paneCount.val,
                          GetCurrentSession(paneCount.m, w, f,
                                            "GetCurrentSession"),
                          opt, f)

ApplyZoom(m, w, state, opt, f) ==
  ApplyZoomCounted(w, state, GetPaneCount(m, w, f, "GetPaneCount"), opt, f)

cmdApplyRun(m, w, opt, f) ==
  LET loaded == LoadState(m, f) IN
  IF loaded.err THEN Outcome(loaded.m, TRUE, "load", -1)
  ELSE IF ~loaded.state.Enabled
  THEN Outcome(loaded.m, FALSE, "disabled", -1)
  ELSE ApplyZoom(loaded.m, w, loaded.state, opt, f)

\* the snapshot may be restored: it has one leaf per live pane
canRestoreAlways(snapshotPanes, currentPanes) == TRUE

canRestore(snapshotPanes, currentPanes) == snapshotPanes = currentPanes

\* cmdToggle's disable branch once the record is removed
toggleDisableCleared(cleared, f) ==
  IF cleared.err THEN Outcome(cleared.m, TRUE, "disable", -1)
  ELSE LET shown == DisplayMessage(cleared.m, "Focus zoom: OFF", f,
                                   "toggle.DisplayMessage.off")
       IN Outcome(shown.m, shown.err, "disable", -1)

\* the disable branch giving up when the host refuses the snapshot
toggleDisableUnlessRefused(w, state, snapshotPanes, currentPanes, f) ==
  IF canRestore(snapshotPanes, currentPanes.val)
  THEN LET restored == RestoreSnapshot(currentPanes.m, w, state, f,
                                       "toggle.RestoreSnapshot")
       IN IF restored.err THEN Outcome(restored.m, TRUE, "disable", -1)
          ELSE toggleDisableCleared(
                 ClearState(restored.m, f, "toggle.ClearState"), f)
  ELSE toggleDisableCleared(
         ClearState(currentPanes.m, f, "toggle.ClearState"), f)

\* cmdToggle's disable branch once the live panes are counted: a failed
\* count reads as 0
toggleDisableCounted(w, state, snapshotPanes, currentPanes, f) ==
  toggleDisableCleared(
    ClearState(IF canRestore(snapshotPanes, currentPanes.val)
               THEN RestoreSnapshot(currentPanes.m, w, state, f,
                                    "toggle.RestoreSnapshot").m
               ELSE currentPanes.m,
               f, "toggle.ClearState"),
    f)

\* cmdToggle's disable branch once the snapshot is parsed
toggleDisableParsed(m, w, state, snapshotTree, f) ==
  IF state.Snapshot # <<>> /\ ~snapshotTree.err
  THEN toggleDisableCounted(w, state,
                            countPanes(snapshotTree.heap, snapshotTree.node),
                            GetPaneCount(m, w, f, "toggle.GetPaneCount"), f)
  ELSE toggleDisableCleared(ClearState(m, f, "toggle.ClearState"), f)

\* cmdToggle while the state is Enabled
toggleDisable(m, w, state, f) ==
  toggleDisableParsed(m, w, state, ParseLayout(state.Snapshot, <<>>), f)

\* cmdToggle's enable branch once ApplyZoom returned
toggleEnableApplied(applied, f) ==
  IF applied.err THEN applied
  ELSE LET shown == DisplayMessage(applied.m, "Focus zoom: ON", f,
                                   "toggle.DisplayMessage.on")
       IN [applied EXCEPT !.m = shown.m, !.err = shown.err]

\* cmdToggle's enable branch once the state is saved
toggleEnableSaved(w, newState, saved, opt, f) ==
  IF saved.err THEN Outcome(saved.m, TRUE, "save", -1)
  ELSE toggleEnableApplied(ApplyZoom(saved.m, w, newState, opt, f), f)

\* cmdToggle's enable branch once the snapshot is captured
toggleEnableCaptured(w, newState, opt, f) ==
  IF newState.err THEN Outcome(newState.m, TRUE, "capture", -1)
  ELSE toggleEnableSaved(w, newState.state,
                         SaveState(newState.m, newState.state, f,
                                   "toggle.SaveState"),
                         opt, f)

\* cmdToggle while the state is not Enabled
toggleEnable(m, w, opt, f) ==
  toggleEnableCaptured(w,
                       CaptureSnapshot(m, w, f,
                         <<"capture.GetCurrentSession",
                           "capture.GetCurrentWindow",
                           "capture.GetWindowLayout">>),
                       opt, f)

cmdToggleRun(m, w, opt, f) ==
  LET loaded == LoadState(m, f) IN
  IF loaded.err THEN Outcome(loaded.m, TRUE, "load", -1)
  ELSE IF loaded.state.Enabled
  THEN toggleDisable(loaded.m, w, loaded.state, f)
  ELSE toggleEnable(loaded.m, w, opt, f)

(***************************************************************************)
(* The plugin at work: key binding, focus hook and what the user does      *)
(***************************************************************************)

\* values of @focus-zoom-percent: the option is not set, or set to 80
ZoomOptions == { <<>>, <<"8", "0">> }

\* texts a state file can be edited to that ParseLayout rejects
BadSnapshots == { <<>>, <<"x">> }

\* nothing captured: the state is not Enabled
NoSnapshot == [text |-> <<>>, win |-> 0, topo |-> FALSE, edited |-> FALSE]

NoRun ==
  [op |-> "none", path |-> "none", err |-> FALSE, faulted |-> FALSE,
   fails |-> <<>>, cmds |-> <<>>, leaves |-> -1, since |-> NoSnapshot]

\* the pipeline variables while the plugin runs
PipeIdle ==
  /\ pc = "idle"
  /\ text = <<>>
  /\ edited = FALSE
  /\ heap = <<>>
  /\ inHeap = <<>>
  /\ inRoot = Nil
  /\ target = -1
  /\ percent = 0
  /\ outRoot = Nil
  /\ outText = <<>>
  /\ reRoot = Nil

\* the processes of the plugin that can be running at one time
Procs == {1, 2}

\* a process that is not running: kind is the command, pc the call it is
\* about to make, state the record it works on, newState a captured one,
\* cmds what it has sent
NoProc ==
  [kind |-> "none", pc |-> "idle", state |-> ZeroState,
   newState |-> ZeroState, paneCount |-> 0, activePaneID |-> 0,
   cmds |-> <<>>, msg |-> ""]

\* no process runs; none has run and the user has not moved
NoProcs == [run |-> [p \in Procs |-> NoProc], runs |-> 0, moves |-> 0]

\* the plugin's variables while the pipeline is studied on its own
HostIdle ==
  /\ stateFile = <<>>
  /\ wins = [w \in Windows |-> firstWindow(w)]
  /\ cur = 1
  /\ option = <<>>
  /\ last = NoRun
  /\ faults = 0
  /\ since = NoSnapshot
  /\ procs = NoProcs

\* the plugin is installed, nothing is zoomed, each window has one pane
Init ==
  /\ PipeIdle
  /\ stateFile = <<>>
  /\ wins = [w \in Windows |-> firstWindow(w)]
  /\ cur = 1
  /\ option \in ZoomOptions
  /\ last = NoRun
  /\ faults = 0
  /\ since = NoSnapshot
  /\ procs = NoProcs

\* the record in the state file
persisted(file) == jsonUnmarshal(file[1])

\* what is remembered of a handler's run
Run(op, r) ==
  [op |-> op, path |-> r.path, err |-> r.err, faulted |-> r.m.fails # <<>>,
   fails |-> r.m.fails, cmds |-> r.m.cmds, leaves |-> r.leaves,
   since |-> since]

\* the history after a toggle: a record written by the enable branch starts
\* it, a removed record ends it
sinceToggle(r) ==
  IF r.m.file = <<>> THEN NoSnapshot
  ELSE IF r.path \notin {"load", "disable", "capture", "save"}
  THEN [text |-> wins[cur].layout, win |-> cur, topo |-> FALSE,
        edited |-> FALSE]
  ELSE since

\* prefix + g: run-shell "tmux-focus-zoom toggle"
cmdToggle ==
  /\ \E plain \in {cmdToggleRun(World(stateFile, wins), cur, option, NoFault)} :
       \E f \in faultsOn(plain.m.calls, faults) :
         \E r \in {IF f = NoFault THEN plain
                   ELSE cmdToggleRun(World(stateFile, wins), cur, option, f)} :
           /\ stateFile' = r.m.file
           /\ wins' = r.m.wins
           /\ last' = Run("toggle", r)
           /\ faults' = IF r.m.fails # <<>> THEN faults + 1 ELSE faults
           /\ since' = sinceToggle(r)
  /\ UNCHANGED <<cur, option, procs, pipeVars>>

\* after-select-pane hook: run-shell -b "tmux-focus-zoom apply"
cmdApply ==
  /\ \E plain \in {cmdApplyRun(World(stateFile, wins), cur, option, NoFault)} :
       \E f \in faultsOn(plain.m.calls, faults) :
         \E r \in {IF f = NoFault THEN plain
                   ELSE cmdApplyRun(World(stateFile, wins), cur, option, f)} :
           /\ stateFile' = r.m.file
           /\ wins' = r.m.wins
           /\ last' = Run("apply", r)
           /\ faults' = IF r.m.fails # <<>> THEN faults + 1 ELSE faults
           /\ since' = IF r.m.file = <<>> THEN NoSnapshot ELSE since
  /\ UNCHANGED <<cur, option, procs, pipeVars>>

\* the user focuses another pane of the window
selectPane ==
  /\ \E i \in 1..wins[cur].panes :
       /\ paneIDs(cur, wins[cur].panes)[i] # wins[cur].active
       /\ wins' = [wins EXCEPT ![cur].active =
                                  paneIDs(cur, wins[cur].panes)[i]]
  /\ last' = NoRun
  /\ UNCHANGED <<stateFile, cur, option, faults, since, pipeVars>>

SelectPane == selectPane /\ UNCHANGED procs

\* the user goes to another window
SelectWindow ==
  /\ \E w \in Windows \ {cur} : cur' = w
  /\ last' = NoRun
  /\ UNCHANGED <<stateFile, wins, option, faults, since, procs, pipeVars>>

\* the user splits a pane: the host lays the window out anew and focuses
\* the new pane
splitWindow ==
  /\ wins[cur].panes + 1 \in paneCounts(cur)
  /\ cellFits(hostShape(cur, wins[cur].panes + 1), MaxWidth, MaxHeight, 0)
  /\ wins' = [wins EXCEPT ![cur] =
                hostWindow(cur, wins[cur].panes + 1,
                           paneIDs(cur, wins[cur].panes + 1)
                             [wins[cur].panes + 1])]
  /\ since' = [since EXCEPT !.topo = @ \/ cur = since.win]
  /\ last' = NoRun
  /\ UNCHANGED <<stateFile, cur, option, faults, pipeVars>>

SplitWindow == splitWindow /\ UNCHANGED procs

\* a pane exits: the host lays the window out anew; the focus moves when
\* the pane had it
killPane ==
  /\ wins[cur].panes - 1 \in paneCounts(cur)
  /\ wins' = [wins EXCEPT ![cur] =
                hostWindow(cur, wins[cur].panes - 1,
                           IF wins[cur].active
                                = paneIDs(cur, wins[cur].panes)[wins[cur].panes]
                           THEN paneIDs(cur, wins[cur].panes)
                                  [wins[cur].panes - 1]
                           ELSE wins[cur].active)]
  /\ since' = [since EXCEPT !.topo = @ \/ cur = since.win]
  /\ last' = NoRun
  /\ UNCHANGED <<stateFile, cur, option, faults, pipeVars>>

KillPane == killPane /\ UNCHANGED procs

\* the state file is overwritten from outside with a snapshot that does not
\* parse
EditStateFile ==
  /\ stateFile # <<>>
  /\ ~since.edited
  /\ \E bad \in BadSnapshots \ {persisted(stateFile).Snapshot} :
       stateFile' = <<[stateFile[1] EXCEPT !.snapshot = jsonString(bad)]>>
  /\ since' = [since EXCEPT !.edited = TRUE]
  /\ last' = NoRun
  /\ UNCHANGED <<wins, cur, option, faults, procs, pipeVars>>

Next ==
  \/ cmdToggle
  \/ cmdApply
  \/ SelectPane
  \/ SelectWindow
  \/ SplitWindow
  \/ KillPane

Spec == Init /\ [][Next]_vars

\* the same with a state file that may be overwritten
NextEdited == Next \/ EditStateFile

SpecEdited == Init /\ [][NextEdited]_vars

(***************************************************************************)
(* Handlers running side by side: the key binding runs "toggle" and the    *)
(* after-select-pane hook runs "apply" in the background, each a process   *)
(* of its own.  A step of a process is one call that reads or writes the   *)
(* state file or asks or commands the host; what lies between two calls is *)
(* local to the process.  Queries whose answer nothing changes here (the   *)
(* session and window of the client, the option) are taken together with   *)
(* the call that follows them.                                             *)
(***************************************************************************)

\* handlers started in one behaviour
MaxRuns == 3

\* moves of the user in one behaviour
MaxMoves == 2

Running(p) == procs.run[p].pc # "idle"

\* the process is in the handler of the command
RunningAs(p, kind) == Running(p) /\ procs.run[p].kind = kind

\* a step of process p leaves the world m and the process as proc; a
\* process that returned is forgotten but for what it sent
Step(p, m, proc) ==
  /\ stateFile' = m.file
  /\ wins' = m.wins
  /\ procs' = [procs EXCEPT !.run[p] = IF proc.pc = "done" THEN NoProc
                                       ELSE proc]
  /\ last' = IF proc.pc = "done"
             THEN [NoRun EXCEPT !.op = proc.kind, !.err = proc.msg = "error",
                                !.cmds = proc.cmds]
             ELSE last
  /\ UNCHANGED <<cur, option, faults, since, pipeVars>>

\* the handler returns
Return(proc, err) ==
  [proc EXCEPT !.pc = "done", !.msg = IF err THEN "error" ELSE ""]

\* ApplyZoom returns: cmdApply returns with it, cmdToggle goes on to its
\* message unless there is an error
ApplyZoomReturns(proc, err) ==
  IF proc.kind = "toggle" /\ ~err
  THEN [proc EXCEPT !.pc = "message", !.msg = "Focus zoom: ON"]
  ELSE Return(proc, err)

\* the hook fires, or apply is run by hand
StartApply(p) ==
  /\ ~Running(p)
  /\ \A q \in Procs : q < p => Running(q)
  /\ procs.runs < MaxRuns
  /\ procs' = [procs EXCEPT !.run[p] = [NoProc EXCEPT !.kind = "apply",
                                                      !.pc = "load"],
                            !.runs = @ + 1]
  /\ UNCHANGED <<stateFile, wins, cur, option, last, faults, since, pipeVars>>

\* the key is pressed; run-shell makes the client wait for the toggle, so
\* no second toggle starts before it returned
StartToggle(p) ==
  /\ ~Running(p)
  /\ \A q \in Procs : ~RunningAs(q, "toggle")
  /\ \A q \in Procs : q < p => Running(q)
  /\ procs.runs < MaxRuns
  /\ procs' = [procs EXCEPT !.run[p] = [NoProc EXCEPT !.kind = "toggle",
                                                      !.pc = "load"],
                            !.runs = @ + 1]
  /\ UNCHANGED <<stateFile, wins, cur, option, last, faults, since, pipeVars>>

\* cmdToggle once the record is loaded: the branch it takes; the disable
\* branch parses the snapshot before it counts the panes
toggleLoaded(proc, state) ==
  IF ~state.Enabled THEN [proc EXCEPT !.pc = "enable capture"]
  ELSE IF state.Snapshot # <<>> /\ ~ParseLayout(state.Snapshot, <<>>).err
  THEN [proc EXCEPT !.pc = "disable count", !.state = state]
  ELSE [proc EXCEPT !.pc = "clear", !.state = state]

\* state, err := LoadState() of cmdApply and cmdToggle
LoadStep(p) ==
  /\ procs.run[p].pc = "load"
  /\ \E r \in {LoadState(World(stateFile, wins), NoFault)} :
       Step(p, r.m,
            IF r.err THEN Return(procs.run[p], TRUE)
            ELSE IF procs.run[p].kind = "toggle"
            THEN toggleLoaded(procs.run[p], r.state)
            ELSE IF ~r.state.Enabled THEN Return(procs.run[p], FALSE)
            ELSE [procs.run[p] EXCEPT !.pc = "count", !.state = r.state])

\* paneCount, err := GetPaneCount() of ApplyZoom
CountStep(p) ==
  /\ procs.run[p].pc = "count"
  /\ \E r \in {GetPaneCount(World(stateFile, wins), cur, NoFault,
                            "GetPaneCount")} :
       Step(p, r.m,
            IF r.err THEN ApplyZoomReturns(procs.run[p], TRUE)
            ELSE IF r.val <= 1 THEN ApplyZoomReturns(procs.run[p], FALSE)
            ELSE [procs.run[p] EXCEPT !.pc = "where", !.paneCount = r.val])

\* GetCurrentSession() and GetCurrentWindow() of ApplyZoom and the
\* comparison with the record
WhereStep(p) ==
  /\ procs.run[p].pc = "where"
  /\ \E s \in {GetCurrentSession(World(stateFile, wins), cur, NoFault,
                                 "GetCurrentSession")} :
       \E w \in {GetCurrentWindow(s.m, cur, NoFault, "GetCurrentWindow")} :
         Step(p, w.m,
              IF s.err \/ w.err THEN ApplyZoomReturns(procs.run[p], TRUE)
              ELSE IF s.val # procs.run[p].state.Session
                      \/ w.val # procs.run[p].state.Window
              THEN ApplyZoomReturns(procs.run[p], FALSE)
              ELSE [procs.run[p] EXCEPT !.pc = "focus"])

\* ApplyZoom once the focused pane is known: the snapshot is parsed; one
\* that does not parse is handed to the host and the degraded path taken,
\* in one go here; one with another leaf count is replaced
ApplyZoomWithPane(proc, m, layoutTree) ==
  IF layoutTree.err
  THEN [m |-> ApplyZoomRestored(cur,
                                RestoreSnapshot(m, cur, proc.state, NoFault,
                                                "fallback.RestoreSnapshot"),
                                option, NoFault).m,
        proc |-> ApplyZoomReturns(proc,
                   ApplyZoomRestored(cur,
                                     RestoreSnapshot(m, cur, proc.state,
                                                     NoFault,
                                                     "fallback.RestoreSnapshot"),
                                     option, NoFault).err)]
  ELSE IF snapshotStale(countPanes(layoutTree.heap, layoutTree.node),
                        proc.paneCount)
  THEN [m |-> m, proc |-> [proc EXCEPT !.pc = "capture"]]
  ELSE [m |-> m, proc |-> [proc EXCEPT !.pc = "send"]]

\* activePaneID, err := GetActivePaneID() of ApplyZoom and the parse of the
\* snapshot
FocusStep(p) ==
  /\ procs.run[p].pc = "focus"
  /\ \E r \in {GetActivePaneID(World(stateFile, wins), cur, NoFault,
                               "GetActivePaneID")} :
       IF r.err THEN Step(p, r.m, ApplyZoomReturns(procs.run[p], TRUE))
       ELSE \E n \in {ApplyZoomWithPane(
                         [procs.run[p] EXCEPT !.activePaneID = r.val], r.m,
                         ParseLayout(procs.run[p].state.Snapshot, <<>>))} :
              Step(p, n.m, n.proc)

\* newState, err := CaptureSnapshot() of ApplyZoom
CaptureStep(p) ==
  /\ procs.run[p].pc = "capture"
  /\ \E r \in {CaptureSnapshot(World(stateFile, wins), cur, NoFault,
                               <<"resnap.GetCurrentSession",
                                 "resnap.GetCurrentWindow",
                                 "resnap.GetWindowLayout">>)} :
       Step(p, r.m,
            IF r.err THEN ApplyZoomReturns(procs.run[p], TRUE)
            ELSE [procs.run[p] EXCEPT !.pc = "save", !.newState = r.state])

\* SaveStep with a write that stops one byte short of the record's snapshot
SaveStepTorn(p) ==
  /\ procs.run[p].pc = "save"
  /\ \E r \in {SaveState(World(stateFile, wins),
                         [procs.run[p].newState EXCEPT
                            !.Snapshot = SubSeq(@, 1, Len(@) - 1)],
                         NoFault, "resnap.SaveState")} :
       Step(p, r.m,
            IF r.err \/ ParseLayout(procs.run[p].newState.Snapshot, <<>>).err
            THEN ApplyZoomReturns(procs.run[p], TRUE)
            ELSE [procs.run[p] EXCEPT !.pc = "send",
                                  !.state.Snapshot =
                                     procs.run[p].newState.Snapshot,
                                  !.newState = ZeroState])

\* SaveState(newState) of ApplyZoom, then state.Snapshot = newState.Snapshot
\* and the parse of it
SaveStep(p) ==
  /\ procs.run[p].pc = "save"
  /\ \E r \in {SaveState(World(stateFile, wins), procs.run[p].newState, NoFault,
                         "resnap.SaveState")} :
       Step(p, r.m,
            IF r.err \/ ParseLayout(procs.run[p].newState.Snapshot, <<>>).err
            THEN ApplyZoomReturns(procs.run[p], TRUE)
            ELSE [procs.run[p] EXCEPT !.pc = "send",
                                  !.state.Snapshot =
                                     procs.run[p].newState.Snapshot,
                                  !.newState = ZeroState])

\* the layout ApplyZoom builds from its snapshot
zoomedLayoutOf(tree, activePaneID, zoomPercent) ==
  newLayoutOf(Resize(tree.heap, tree.node, activePaneID, zoomPercent))

\* GetZoomPercent(), the transform and SelectLayout(newLayout) of ApplyZoom
SendStep(p) ==
  /\ procs.run[p].pc = "send"
  /\ \E z \in {GetZoomPercent(World(stateFile, wins), option, NoFault,
                              "GetZoomPercent")} :
       \E r \in {SelectLayout(z.m, cur,
                              zoomedLayoutOf(
                                ParseLayout(procs.run[p].state.Snapshot, <<>>),
                                procs.run[p].activePaneID, z.val),
                              NoFault, "SelectLayout")} :
         Step(p, r.m,
              IF r.err
              THEN [procs.run[p] EXCEPT !.pc = "restore",
                                    !.cmds = @ \o r.m.cmds]
              ELSE ApplyZoomReturns([procs.run[p] EXCEPT !.cmds = @ \o r.m.cmds],
                                    FALSE))

\* _ = RestoreSnapshot(state) of ApplyZoom after the host refused the layout
RestoreStep(p) ==
  /\ procs.run[p].pc = "restore"
  /\ \E r \in {RestoreSnapshot(World(stateFile, wins), cur, procs.run[p].state,
                               NoFault, "RestoreSnapshot")} :
       Step(p, r.m,
            ApplyZoomReturns([procs.run[p] EXCEPT !.cmds = @ \o r.m.cmds], TRUE))

\* currentPanes, _ := GetPaneCount() of the disable branch
DisableCountStep(p) ==
  /\ procs.run[p].pc = "disable count"
  /\ \E r \in {GetPaneCount(World(stateFile, wins), cur, NoFault,
                            "toggle.GetPaneCount")} :
       \E snapshotTree \in {ParseLayout(procs.run[p].state.Snapshot, <<>>)} :
         Step(p, r.m,
              IF canRestore(countPanes(snapshotTree.heap, snapshotTree.node),
                            r.val)
              THEN [procs.run[p] EXCEPT !.pc = "disable restore"]
              ELSE [procs.run[p] EXCEPT !.pc = "clear"])

\* RestoreSnapshot(state) of the disable branch, its error ignored
DisableRestoreStep(p) ==
  /\ procs.run[p].pc = "disable restore"
  /\ \E r \in {RestoreSnapshot(World(stateFile, wins), cur, procs.run[p].state,
                               NoFault, "toggle.RestoreSnapshot")} :
       Step(p, r.m, [procs.run[p] EXCEPT !.pc = "clear", !.cmds = @ \o r.m.cmds])

\* ClearState() of the disable branch
ClearStep(p) ==
  /\ procs.run[p].pc = "clear"
  /\ \E r \in {ClearState(World(stateFile, wins), NoFault,
                          "toggle.ClearState")} :
       Step(p, r.m,
            IF r.err THEN Return(procs.run[p], TRUE)
            ELSE [procs.run[p] EXCEPT !.pc = "message",
                                  !.msg = "Focus zoom: OFF"])

\* return DisplayMessage(...) of cmdToggle
MessageStep(p) ==
  /\ procs.run[p].pc = "message"
  /\ \E r \in {DisplayMessage(World(stateFile, wins), procs.run[p].msg, NoFault,
                              IF procs.run[p].msg = "Focus zoom: OFF"
                              THEN "toggle.DisplayMessage.off"
                              ELSE "toggle.DisplayMessage.on")} :
       Step(p, r.m, Return([procs.run[p] EXCEPT !.cmds = @ \o r.m.cmds], r.err))

\* newState, err := CaptureSnapshot() of the enable branch
EnableCaptureStep(p) ==
  /\ procs.run[p].pc = "enable capture"
  /\ \E r \in {CaptureSnapshot(World(stateFile, wins), cur, NoFault,
                               <<"capture.GetCurrentSession",
                                 "capture.GetCurrentWindow",
                                 "capture.GetWindowLayout">>)} :
       Step(p, r.m,
            IF r.err THEN Return(procs.run[p], TRUE)
            ELSE [procs.run[p] EXCEPT !.pc = "enable save", !.newState = r.state])

\* SaveState(newState) of the enable branch; ApplyZoom(newState) follows
EnableSaveStep(p) ==
  /\ procs.run[p].pc = "enable save"
  /\ \E r \in {SaveState(World(stateFile, wins), procs.run[p].newState, NoFault,
                         "toggle.SaveState")} :
       Step(p, r.m,
            IF r.err THEN Return(procs.run[p], TRUE)
            ELSE [procs.run[p] EXCEPT !.pc = "count",
                                  !.state = procs.run[p].newState,
                                  !.newState = ZeroState])

\* the user focuses a pane, splits one or one exits while handlers run
UserMove ==
  /\ procs.moves < MaxMoves
  /\ selectPane \/ splitWindow \/ killPane
  /\ procs' = [procs EXCEPT !.moves = @ + 1]

\* the session starts with the plugin installed and nothing running
InitRace ==
  /\ PipeIdle
  /\ HostIdle

NextRace ==
  \/ \E p \in Procs : StartApply(p)
  \/ \E p \in Procs : StartToggle(p)
  \/ \E p \in Procs : LoadStep(p)
  \/ \E p \in Procs : CountStep(p)
  \/ \E p \in Procs : WhereStep(p)
  \/ \E p \in Procs : FocusStep(p)
  \/ \E p \in Procs : CaptureStep(p)
  \/ \E p \in Procs : SaveStep(p)
  \/ \E p \in Procs : SendStep(p)
  \/ \E p \in Procs : RestoreStep(p)
  \/ \E p \in Procs : DisableCountStep(p)
  \/ \E p \in Procs : DisableRestoreStep(p)
  \/ \E p \in Procs : ClearStep(p)
  \/ \E p \in Procs : MessageStep(p)
  \/ \E p \in Procs : EnableCaptureStep(p)
  \/ \E p \in Procs : EnableSaveStep(p)
  \/ UserMove

SpecRace == InitRace /\ [][NextRace]_vars

(***************************************************************************)
(* The state file on its own                                               *)
(***************************************************************************)

\* the records tried: session names and snapshots with and without the
\* characters JSON escapes
StoreRecords ==
  [Enabled  : BOOLEAN,
   Session  : {<<>>, sessionName(1), <<"a", "\"">>, <<"\\", "\"">>},
   Window   : {windowIndex(1), windowIndex(2)},
   Snapshot : {<<>>, firstWindow(1).layout, <<"\\">>}]

\* nothing was saved since the file was last absent
NothingSaved == [known |-> TRUE, rec |-> <<>>]

\* in this specification since is what the file is expected to hold (rec,
\* empty when absent) and whether that is known; last is the last call, its
\* error and the record it was given or returned
InitStore ==
  /\ PipeIdle
  /\ stateFile = <<>>
  /\ wins = [w \in Windows |-> firstWindow(w)]
  /\ cur = 1
  /\ option = <<>>
  /\ last = [op |-> "none", err |-> FALSE, faulted |-> FALSE,
             state |-> ZeroState]
  /\ faults = 0
  /\ since = NothingSaved
  /\ procs = NoProcs

\* SaveState(state); a failed write leaves nothing known about the file
StoreSave ==
  /\ \E state \in StoreRecords :
       \E f \in {NoFault, [at |-> "toggle.SaveState", more |-> FALSE]} :
         \E r \in {SaveState(World(stateFile, wins), state, f,
                             "toggle.SaveState")} :
           /\ stateFile' = r.m.file
           /\ last' = [op |-> "save", err |-> r.err, faulted |-> f # NoFault,
                       state |-> state]
           /\ since' = IF r.err THEN [since EXCEPT !.known = FALSE]
                       ELSE [known |-> TRUE, rec |-> <<state>>]
  /\ UNCHANGED <<wins, cur, option, faults, procs, pipeVars>>

\* state, err := LoadState()
StoreLoad ==
  /\ \E f \in {NoFault, [at |-> "LoadState", more |-> FALSE]} :
       \E r \in {LoadState(World(stateFile, wins), f)} :
         /\ stateFile' = r.m.file
         /\ last' = [op |-> "load", err |-> r.err, faulted |-> f # NoFault,
                     state |-> r.state]
  /\ UNCHANGED <<wins, cur, option, faults, since, procs, pipeVars>>

\* ClearState()
StoreClear ==
  /\ \E f \in {NoFault, [at |-> "toggle.ClearState", more |-> FALSE]} :
       \E r \in {ClearState(World(stateFile, wins), f,
                              "toggle.ClearState")} :
         /\ stateFile' = r.m.file
         /\ last' = [op |-> "clear", err |-> r.err, faulted |-> f # NoFault,
                     state |-> ZeroState]
         /\ since' = IF r.err THEN since ELSE NothingSaved
  /\ UNCHANGED <<wins, cur, option, faults, procs, pipeVars>>

NextStore ==
  \/ StoreSave
  \/ StoreLoad
  \/ StoreClear

SpecStore == InitStore /\ [][NextStore]_vars

(***************************************************************************)
(* GetZoomPercent on its own                                               *)
(***************************************************************************)

\* longest option text tried
MaxOptionLen == 3

\* characters of the option texts tried
OptionChars == {"0", "1", "5", "6", "9", "+", "-", "x"}

\* what show-option may print for @focus-zoom-percent
OptionTexts ==
  UNION {[1..n -> OptionChars] : n \in 0..MaxOptionLen}

InitOption ==
  /\ PipeIdle
  /\ stateFile = <<>>
  /\ wins = [w \in Windows |-> firstWindow(w)]
  /\ cur = 1
  /\ option \in OptionTexts
  /\ last = NoRun
  /\ faults = 0
  /\ since = NoSnapshot
  /\ procs = NoProcs

\* zoomPercent := GetZoomPercent(), the show-option query answering or
\* failing
AskZoomPercent ==
  /\ pc = "idle"
  /\ \E f \in {NoFault, [at |-> "GetZoomPercent", more |-> FALSE]} :
       \E asked \in {GetZoomPercent(World(stateFile, wins), option, f,
                                    "GetZoomPercent")} :
         /\ percent' = asked.val
         /\ faults' = Len(asked.m.fails)
  /\ pc' = "asked"
  /\ UNCHANGED <<text, edited, heap, inHeap, inRoot, target, outRoot, outText,
                 reRoot, stateFile, wins, cur, option, last, since,
                 procs>>

NextOption == AskZoomPercent

SpecOption == InitOption /\ [][NextOption]_vars

(***************************************************************************)
(* The codec and the transform as a pipeline                               *)
(***************************************************************************)

PipeInit(texts) ==
  /\ pc = "text"
  /\ text \in texts
  /\ edited = FALSE
  /\ heap = <<>>
  /\ inHeap = <<>>
  /\ inRoot = Nil
  /\ target = -1
  /\ percent = 0
  /\ outRoot = Nil
  /\ outText = <<>>
  /\ reRoot = Nil
  /\ HostIdle

\* the stored text is cut short, loses a character or has one replaced
Edit ==
  /\ pc = "text"
  /\ ~edited
  /\ \E i \in 1..Len(text) :
       \/ text' = Upto(text, i - 1)
       \/ text' = Upto(text, i - 1) \o From(text, i + 1)
       \/ \E c \in EditChars : text' = [text EXCEPT ![i] = c]
  /\ edited' = TRUE
  /\ UNCHANGED <<pc, heap, inHeap, inRoot, target, percent, outRoot, outText,
                 reRoot>>
  /\ UNCHANGED hostVars

Decode ==
  /\ pc = "text"
  /\ LET r == ParseLayout(text, heap)
     IN /\ heap' = r.heap
        /\ inHeap' = r.heap
        /\ inRoot' = r.node
        /\ pc' = IF r.err THEN "failed" ELSE "decoded"
  /\ UNCHANGED <<text, edited, target, percent, outRoot, outText, reRoot>>
  /\ UNCHANGED hostVars

DoResize ==
  /\ pc = "decoded"
  /\ \E id \in {k \in leafIDs(heap, inRoot) : k >= 0}
               \cup {stalePaneID(heap, inRoot)},
        p \in MinZoomPercent..MaxZoomPercent :
       LET z == Resize(heap, inRoot, id, p)
       IN /\ heap' = z.heap
          /\ outRoot' = z.node
          /\ target' = id
          /\ percent' = p
  /\ pc' = "zoomed"
  /\ UNCHANGED <<text, edited, inHeap, inRoot, outText, reRoot>>
  /\ UNCHANGED hostVars

\* BuildLayout of the parsed tree (codec round trip)
EncodeParsed ==
  /\ pc = "decoded"
  /\ outText' = BuildLayout(heap, inRoot)
  /\ pc' = "encoded"
  /\ UNCHANGED <<text, edited, heap, inHeap, inRoot, target, percent, outRoot,
                 reRoot>>
  /\ UNCHANGED hostVars

\* BuildLayout of the zoomed tree
EncodeZoomed ==
  /\ pc = "zoomed"
  /\ outText' = BuildLayout(heap, outRoot)
  /\ pc' = "built"
  /\ UNCHANGED <<text, edited, heap, inHeap, inRoot, target, percent, outRoot,
                 reRoot>>
  /\ UNCHANGED hostVars

Redecode ==
  /\ pc = "encoded"
  /\ LET r == ParseLayout(outText, heap)
     IN /\ heap' = r.heap
        /\ reRoot' = r.node
        /\ pc' = IF r.err THEN "refailed" ELSE "redecoded"
  /\ UNCHANGED <<text, edited, inHeap, inRoot, target, percent, outRoot,
                 outText>>
  /\ UNCHANGED hostVars

CodecLayouts ==
  { windowLayout(Shapes[s], MaxWidth, MaxHeight, b) :
      s \in 1..Len(Shapes), b \in 0..MaxBias }
  \cup TestLayouts \cup OddLayouts

InitCodec == PipeInit(CodecLayouts)

NextCodec == Edit \/ Decode \/ EncodeParsed \/ Redecode

SpecCodec == InitCodec /\ [][NextCodec]_vars

InitZoom == PipeInit(WindowLayouts \cup TestLayouts \cup OddLayouts)

NextZoom == Decode \/ DoResize \/ EncodeZoomed

SpecZoom == InitZoom /\ [][NextZoom]_vars

(***************************************************************************)
(* Properties of the transform (SpecZoom)                                  *)
(***************************************************************************)

\* size of node n along the split axis of its parent p
sizeAlong(h, p, n) ==
  IF h[p].SplitType = SplitHorizontal THEN h[n].Width ELSE h[n].Height

RECURSIVE Conserved(_, _)
\* every split node below and including n: children's sizes along the split
\* axis plus one border per gap make up the node's own size
Conserved(h, n) ==
  LET kids == h[n].Children IN
  /\ h[n].SplitType # SplitNone =>
       SumSeq([i \in 1..Len(kids) |-> sizeAlong(h, n, kids[i])])
         + (Len(kids) - 1)
       = (IF h[n].SplitType = SplitHorizontal THEN h[n].Width
          ELSE h[n].Height)
  /\ \A i \in 1..Len(kids) : Conserved(h, kids[i])

RECURSIVE Positive(_, _)
\* every node below and including n has at least one column and one row
Positive(h, n) ==
  /\ h[n].Width >= 1
  /\ h[n].Height >= 1
  /\ \A i \in 1..Len(h[n].Children) : Positive(h, h[n].Children[i])

RECURSIVE Skeleton(_, _)
\* the tree rooted at n without its geometry: split kinds, pane ids, shape
Skeleton(h, n) ==
  [SplitType |-> h[n].SplitType, PaneID |-> h[n].PaneID,
   Children |-> [i \in 1..Len(h[n].Children) |->
                   Skeleton(h, h[n].Children[i])]]

Zoomed == pc \in {"zoomed", "built"}

TargetPresent == target \in leafIDs(inHeap, inRoot)

\* C2: size conservation - when the input tree conserves sizes, so does every
\* split node, at every depth, of the tree the zoom transform returns
C2_SizeConservation ==
  (Zoomed /\ Conserved(inHeap, inRoot)) => Conserved(heap, outRoot)

\* C5 as claimed: at the first split level the child holding the target is at
\* least as large as every sibling whenever p >= 100 / number of children
C5_TargetDominance ==
  LET kids == heap[outRoot].Children
      a    == activeChild(heap, outRoot, target)
  IN (Zoomed /\ Positive(inHeap, inRoot) /\ Conserved(inHeap, inRoot)
      /\ Len(kids) >= 2 /\ a > 0 /\ percent * Len(kids) >= 100)
     => \A i \in 1..Len(kids) :
          sizeAlong(heap, outRoot, kids[a]) >= sizeAlong(heap, outRoot, kids[i])

\* C5 amended: for p >= 50 the child holding the target is at most one cell
\* smaller than any sibling, and at least as large as every sibling when
\* floor(available * p / 100) is at least half of available
C5_TargetDominanceAmended ==
  LET kids      == heap[outRoot].Children
      a         == activeChild(heap, outRoot, target)
      own       == IF heap[outRoot].SplitType = SplitHorizontal
                   THEN heap[outRoot].Width ELSE heap[outRoot].Height
      available == own - (Len(kids) - 1)
      share     == (available * percent) \div 100
  IN (Zoomed /\ Positive(inHeap, inRoot) /\ Conserved(inHeap, inRoot)
      /\ Len(kids) >= 2 /\ a > 0)
     => \A i \in 1..Len(kids) :
          /\ percent >= 50 =>
               sizeAlong(heap, outRoot, kids[a])
                 >= sizeAlong(heap, outRoot, kids[i]) - 1
          /\ 2 * share >= available =>
               sizeAlong(heap, outRoot, kids[a])
                 >= sizeAlong(heap, outRoot, kids[i])

\* the target's share is one cell short of a sibling's although p >= 50
C5_Witness ==
  LET kids == heap[outRoot].Children
      a    == activeChild(heap, outRoot, target)
  IN /\ Zoomed /\ Positive(inHeap, inRoot) /\ Conserved(inHeap, inRoot)
     /\ Len(kids) >= 2 /\ a > 0 /\ percent >= 50
     /\ \E i \in 1..Len(kids) :
          sizeAlong(heap, outRoot, kids[a])
            = sizeAlong(heap, outRoot, kids[i]) - 1

\* C6: the transform changes geometry only - shape, split kinds, pane ids and
\* their order, the leaf count and the root's width, height, x and y are those
\* of the input
C6_FrameGeometryOnly ==
  Zoomed =>
    /\ Skeleton(heap, outRoot) = Skeleton(inHeap, inRoot)
    /\ countPanes(heap, outRoot) = countPanes(inHeap, inRoot)
    /\ heap[outRoot].Width = inHeap[inRoot].Width
    /\ heap[outRoot].Height = inHeap[inRoot].Height
    /\ heap[outRoot].X = inHeap[inRoot].X
    /\ heap[outRoot].Y = inHeap[inRoot].Y

\* a zoom that resized something in a tree of at least three panes
C6_Witness ==
  /\ Zoomed /\ TargetPresent
  /\ countPanes(inHeap, inRoot) >= 3
  /\ TreeOf(heap, outRoot) # TreeOf(inHeap, inRoot)

\* C7: a target that is the id of no leaf yields a tree equal to the input in
\* every field of every node
C7_StaleTarget ==
  (Zoomed /\ target >= 0 /\ ~TargetPresent)
    => TreeOf(heap, outRoot) = TreeOf(inHeap, inRoot)

\* a stale target on a tree whose root has several children
C7_Witness ==
  /\ Zoomed /\ target >= 0 /\ ~TargetPresent
  /\ Len(inHeap[inRoot].Children) >= 2

\* C8: the transform leaves every node of its input as it was and returns a
\* tree that shares no node with it
C8_InputNotMutated ==
  Zoomed =>
    /\ \A a \in 1..Len(inHeap) : heap[a] = inHeap[a]
    /\ Reach(heap, outRoot) \cap Reach(inHeap, inRoot) = {}
    /\ Reach(heap, inRoot) = Reach(inHeap, inRoot)

\* the transform rewrote nodes at two levels of the copy
C8_Witness ==
  /\ Zoomed /\ TargetPresent
  /\ \E i \in 1..Len(heap[outRoot].Children) :
       LET c == heap[outRoot].Children[i]
           d == inHeap[inRoot].Children[i]
       IN /\ heap[c].Width # inHeap[d].Width
          /\ \E j \in 1..Len(heap[c].Children) :
               heap[heap[c].Children[j]].Height
                 # inHeap[inHeap[d].Children[j]].Height

\* C9: the worked example - root width-split with children 84, 85, 84; pane 26
\* at 65% gives child 0 width 165, children 1 and 2 the other 88 cells within
\* one of 44 and 43, panes 26 and 41 width 165, and 255 cells in total
C9_WorkedExample ==
  /\ (text = ExampleLayout /\ pc = "decoded") =>
       /\ inHeap[inRoot].SplitType = SplitHorizontal
       /\ [i \in 1..Len(inHeap[inRoot].Children) |->
             inHeap[inHeap[inRoot].Children[i]].Width] = <<84, 85, 84>>
  /\ (text = ExampleLayout /\ Zoomed /\ target = 26 /\ percent = 65) =>
       LET kids == heap[outRoot].Children
           w    == [i \in 1..Len(kids) |-> heap[kids[i]].Width]
       IN /\ Len(kids) = 3
          /\ w[1] = 165
          /\ w[2] + w[3] = 88
          /\ w[2] \in 43..45
          /\ w[3] \in 42..44
          /\ \A a \in Reach(heap, outRoot) :
               heap[a].PaneID \in {26, 41} => heap[a].Width = 165
          /\ w[1] + w[2] + w[3] + 2 = 255

C9_Witness ==
  /\ text = ExampleLayout /\ pc = "built" /\ target = 26 /\ percent = 65
  /\ \E a \in Reach(heap, outRoot) : heap[a].PaneID = 41

(***************************************************************************)
(* Properties of the codec (SpecCodec)                                     *)
(***************************************************************************)

\* C3: whatever text ParseLayout accepts, ParseLayout(BuildLayout(tree))
\* succeeds and gives a tree with the same shape, kinds, sizes, offsets and
\* pane ids
C3_RoundTrip ==
  /\ pc # "refailed"
  /\ pc = "redecoded" => TreeOf(heap, reRoot) = TreeOf(heap, inRoot)

\* a corrupted text was accepted and BuildLayout wrote it differently
C3_Witness ==
  /\ pc = "redecoded" /\ edited
  /\ From(outText, 6) # From(text, Index(text, ",") + 1)
  /\ Len(heap[inRoot].Children) >= 2

bitOf(v, k) == (v \div (2 ^ k)) % 2

\* v rotated right by one bit within 16 bits: bit k of the result is bit
\* k + 1 of v, bit 15 is bit 0 of v
rotateRight16(v) ==
  SumSeq([k \in 1..16 |-> bitOf(v, k % 16) * (2 ^ (k - 1))])

RECURSIVE rotateAdd(_, _, _, _)
\* the accumulator after the bytes lo..hi of s, starting from acc
rotateAdd(s, lo, hi, acc) ==
  IF lo > hi THEN acc
  ELSE IF lo = hi THEN (rotateRight16(acc) + ByteOf(s[lo])) % (2 ^ 16)
  ELSE LET first == rotateAdd(s, lo, (lo + hi) \div 2, acc)
       IN IF first >= 0 THEN rotateAdd(s, ((lo + hi) \div 2) + 1, hi, first)
          ELSE first

hexValue(c) == (CHOOSE i \in 1..16 : HexDigits[i] = c) - 1

\* C4: BuildLayout's text is 4 lowercase hex digits, a comma and the body,
\* the digits being the rotate-right-and-add accumulator of the body's bytes
C4_Checksum ==
  pc = "encoded" =>
    LET body == From(outText, 6) IN
    /\ Len(outText) >= 6
    /\ outText[5] = ","
    /\ \A i \in 1..4 : \E k \in 1..16 : HexDigits[k] = outText[i]
    /\ body = buildNodeString(heap, inRoot)
    /\ 4096 * hexValue(outText[1]) + 256 * hexValue(outText[2])
         + 16 * hexValue(outText[3]) + hexValue(outText[4])
       = rotateAdd(body, 1, Len(body), 0)

\* the example's stale-free checksum b2d9 is reproduced from its body
C4_Witness ==
  /\ pc = "encoded" /\ text = ExampleLayout /\ outText = ExampleLayout

(***************************************************************************)
(* Properties of toggle and apply (Spec)                                   *)
(***************************************************************************)

RECURSIVE layoutsSent(_)
\* the texts of the select-layout commands among cmds, in order
layoutsSent(cmds) ==
  IF cmds = <<>> THEN <<>>
  ELSE (IF cmds[1].cmd = "select-layout" THEN <<cmds[1].arg>> ELSE <<>>)
       \o layoutsSent(Tail(cmds))

\* a select-layout command among cmds was accepted by the host
layoutAccepted(cmds) ==
  \E i \in 1..Len(cmds) : cmds[i].cmd = "select-layout" /\ cmds[i].ok

\* the text has one leaf per pane of the window
leavesMatch(snapshot, win) ==
  LET tree == ParseLayout(snapshot, <<>>)
  IN ~tree.err /\ countPanes(tree.heap, tree.node) = win.panes

\* the step is a toggle that found the state Enabled
DisableStep == last'.op = "toggle" /\ last'.path = "disable"

\* C1: exact restore - a disable sends the host no layout but the persisted
\* snapshot, at most once, and only when the snapshot has one leaf per live
\* pane; when it runs in the window zoom was enabled in and no pane of that
\* window was opened or closed since, whatever applies ran in between, the
\* snapshot is still the text captured at enable, and unless a call to the
\* host or the file system fails, disable sends exactly that text, the host
\* accepts it and the window has the layout it had before enable
C1_ExactRestore ==
  [][DisableStep =>
       LET snapshot == persisted(stateFile).Snapshot
           sent     == layoutsSent(last'.cmds)
       IN /\ Len(sent) <= 1
          /\ \A i \in 1..Len(sent) : sent[i] = snapshot
          /\ sent # <<>> => leavesMatch(snapshot, wins[cur])
          /\ (since.win = cur /\ ~since.topo) =>
               /\ snapshot = since.text
               /\ leavesMatch(snapshot, wins[cur])
               /\ ~last'.faulted =>
                    /\ sent = <<since.text>>
                    /\ layoutAccepted(last'.cmds)
                    /\ wins'[cur].layout = since.text
                    /\ stateFile' = <<>>]_vars

\* zoom was enabled in a window of several panes, a pane was focused and
\* zoomed, and disable gave the window the layout captured at enable
C1_Witness ==
  /\ last.op = "toggle"
  /\ last.path = "disable"
  /\ ~last.faulted
  /\ last.since.win = cur
  /\ ~last.since.topo
  /\ wins[cur].panes >= 2
  /\ layoutsSent(last.cmds) = <<last.since.text>>
  /\ layoutAccepted(last.cmds)
  /\ wins[cur].layout = last.since.text
  /\ stateFile = <<>>

\* the step is an apply that finds the state Enabled in the snapshot's
\* window, with at least two live panes and a snapshot that parses but has
\* another number of leaves
StaleApplyStep ==
  /\ last'.op = "apply"
  /\ stateFile # <<>>
  /\ persisted(stateFile).Enabled
  /\ persisted(stateFile).Session = sessionName(cur)
  /\ persisted(stateFile).Window = windowIndex(cur)
  /\ wins[cur].panes >= 2
  /\ ~ParseLayout(persisted(stateFile).Snapshot, <<>>).err
  /\ ~leavesMatch(persisted(stateFile).Snapshot, wins[cur])

\* C10: re-snapshot on topology change - an apply that finds the snapshot
\* with another leaf count than the live pane count (>= 2), in the snapshot's
\* window, replaces the persisted record by a fresh one (enabled, the live
\* session and window, the live layout text) and hands the transform the
\* tree of the live layout, whose leaf count is the live pane count; unless
\* a call to the host or the file system fails it returns no error and the
\* host takes the zoomed layout
C10_Resnapshot ==
  [][(StaleApplyStep /\ ~last'.faulted) =>
       /\ last'.path = "resnapshot"
       /\ stateFile' # <<>>
       /\ persisted(stateFile') = [Enabled  |-> TRUE,
                                   Session  |-> sessionName(cur),
                                   Window   |-> windowIndex(cur),
                                   Snapshot |-> wins[cur].layout]
       /\ last'.leaves = wins[cur].panes
       /\ ~last'.err
       /\ layoutAccepted(last'.cmds)]_vars

\* a pane was opened or closed while zoom was on; the next apply wrote a
\* snapshot with one leaf per live pane, zoomed its tree, and the host took
\* the layout
C10_Witness ==
  /\ last.op = "apply"
  /\ last.path = "resnapshot"
  /\ ~last.err
  /\ ~last.faulted
  /\ last.since.topo
  /\ wins[cur].panes >= 2
  /\ last.leaves = wins[cur].panes
  /\ stateFile # <<>>
  /\ persisted(stateFile).Enabled
  /\ persisted(stateFile).Snapshot # last.since.text
  /\ leavesMatch(persisted(stateFile).Snapshot, wins[cur])
  /\ layoutAccepted(last.cmds)

\* the step is an apply
ApplyStep == last'.op = "apply"

\* the record is missing or not Enabled, the window has at most one pane, or
\* it is not the session and window of the record
NoZoomHere ==
  \/ stateFile = <<>>
  \/ ~persisted(stateFile).Enabled
  \/ wins[cur].panes <= 1
  \/ persisted(stateFile).Session # sessionName(cur)
  \/ persisted(stateFile).Window # windowIndex(cur)

\* C11: apply is a no-op - whenever the persisted state is Disabled, or the
\* live pane count is <= 1, or the live session/window is not the one
\* recorded, an apply hands the host no command, leaves the persisted record
\* and every window as they are, and returns an error only when a call failed
C11_ApplyNoOp ==
  [][(ApplyStep /\ NoZoomHere) =>
       /\ last'.cmds = <<>>
       /\ stateFile' = stateFile
       /\ wins' = wins
       /\ last'.err => last'.faulted]_vars

\* zoom is on for another window; an apply in a window of several panes
\* found the record of the other window and left everything alone
C11_Witness ==
  /\ last.op = "apply"
  /\ last.path = "other window"
  /\ ~last.faulted
  /\ last.cmds = <<>>
  /\ wins[cur].panes >= 2
  /\ stateFile # <<>>
  /\ persisted(stateFile).Enabled
  /\ persisted(stateFile).Window # windowIndex(cur)
  /\ last.since.win # cur

\* the restore of the step was handed to the host and refused
RestoreRefused(cmds) ==
  \E i \in 1..Len(cmds) : cmds[i].cmd = "select-layout" /\ ~cmds[i].ok

\* C12: disable always ends Disabled - a toggle that finds the state Enabled
\* ends with the record removed whether the restore was accepted, refused by
\* the host or skipped, unless loading or removing the record itself fails;
\* a refused restore is not an error of the toggle: it returns an error only
\* when removing the record or showing the message fails
C12_DisableAlwaysClears ==
  [][DisableStep =>
       /\ "toggle.ClearState" \notin {last'.fails[i] :
                                        i \in 1..Len(last'.fails)}
            => stateFile' = <<>>
       /\ last'.err =>
            \E i \in 1..Len(last'.fails) :
              last'.fails[i] \in {"toggle.ClearState",
                                  "toggle.DisplayMessage.off"}]_vars

\* the host refused the snapshot on disable; the record is gone and the
\* toggle reported no error
C12_Witness ==
  /\ last.op = "toggle"
  /\ last.path = "disable"
  /\ RestoreRefused(last.cmds)
  /\ last.fails = <<"toggle.RestoreSnapshot">>
  /\ ~last.err
  /\ stateFile = <<>>

(***************************************************************************)
(* Properties of an apply on a snapshot that does not decode (SpecEdited)  *)
(***************************************************************************)

\* the step is an apply that finds the state Enabled in the snapshot's
\* window, with at least two live panes and a snapshot ParseLayout rejects
UndecodableApplyStep ==
  /\ last'.op = "apply"
  /\ stateFile # <<>>
  /\ persisted(stateFile).Enabled
  /\ persisted(stateFile).Session = sessionName(cur)
  /\ persisted(stateFile).Window = windowIndex(cur)
  /\ wins[cur].panes >= 2
  /\ ParseLayout(persisted(stateFile).Snapshot, <<>>).err

\* every command of the run is a resize-pane
onlyResizes(cmds) == \A i \in 1..Len(cmds) : cmds[i].cmd = "resize-pane"

RECURSIVE openBrackets(_, _, _)
\* the split-open brackets of s that are still open at its end, innermost
\* last: the scan is at position i with the given brackets open
openBrackets(s, i, open) ==
  IF i > Len(s) THEN open
  ELSE IF s[i] \in {"{", "["}
  THEN openBrackets(s, i + 1, Append(open, s[i]))
  ELSE IF /\ open # <<>>
          /\ s[i] = (IF open[Len(open)] = "{" THEN "}" ELSE "]")
  THEN openBrackets(s, i + 1, SubSeq(open, 1, Len(open) - 1))
  ELSE openBrackets(s, i + 1, open)

\* some split-open bracket of the layout (the text after the checksum) has
\* no matching closing bracket
UnmatchedBracket(s) ==
  openBrackets(From(s, Index(s, ",") + 1), 1, <<>>) # <<>>

\* C14: ParseLayout returns an error for every layout text in which a
\* split-open bracket { or [ has no matching closing bracket
C14_UnmatchedBracketFails ==
  pc \in {"decoded", "encoded", "redecoded", "refailed"}
    => ~UnmatchedBracket(text)

\* the leaves of the tree rooted at n
leafNodes(h, n) == {k \in Reach(h, n) : h[k].SplitType = SplitNone}

\* C15: countPanes of a decoded layout is the number of its leaf nodes: 1
\* for a single pane, the number of children for a split of panes, 4 for
\* the three-column example with one split column, at any depth
C15_CountPanes ==
  pc = "decoded" =>
    LET count == countPanes(heap, inRoot)
        kids  == heap[inRoot].Children
    IN /\ count = Cardinality(leafNodes(heap, inRoot))
       /\ heap[inRoot].SplitType = SplitNone => count = 1
       /\ (/\ heap[inRoot].SplitType # SplitNone
           /\ \A i \in 1..Len(kids) : heap[kids[i]].SplitType = SplitNone)
            => count = Len(kids)
       /\ text = ExampleLayout => count = 4

\* the example with a split column inside a split was decoded and counted
C15_Witness ==
  /\ pc = "decoded"
  /\ text = ExampleLayout
  /\ countPanes(heap, inRoot) = 4
  /\ Len(heap[inRoot].Children) = 3
  /\ \E i \in 1..3 :
       heap[heap[inRoot].Children[i]].SplitType = SplitVertical

(***************************************************************************)
(* Properties of GetZoomPercent (SpecOption)                               *)
(***************************************************************************)

\* the text is a decimal integer: an optional sign and one or more digits
isInteger(s) ==
  LET digits == IF s # <<>> /\ s[1] \in {"+", "-"} THEN Tail(s) ELSE s
  IN digits # <<>> /\ \A i \in 1..Len(digits) : digits[i] \in DigitChars

\* the integer a decimal text stands for
integerOf(s) ==
  LET digits == IF s[1] \in {"+", "-"} THEN Tail(s) ELSE s
      n      == Len(digits)
      value  == SumSeq([i \in 1..n |-> DigitVals[digits[i]] * 10 ^ (n - i)])
  IN IF s[1] = "-" THEN 0 - value ELSE value

\* C16: the zoom percentage in use is the configured value when that is an
\* integer in 10..95, and the default 65 in every other case (option unset
\* or empty, not an integer, below 10, above 95, or the query fails); it is
\* always within [10, 95]
C16_ZoomPercent ==
  pc = "asked" =>
    /\ percent = (IF /\ faults = 0
                     /\ isInteger(option)
                     /\ integerOf(option) >= 10
                     /\ integerOf(option) <= 95
                  THEN integerOf(option)
                  ELSE 65)
    /\ percent >= 10
    /\ percent <= 95

\* the option is set to the largest valid value and is used
C16_Witness ==
  /\ pc = "asked"
  /\ faults = 0
  /\ option = <<"9", "5">>
  /\ percent = 95

(***************************************************************************)
(* The state store (SpecStore)                                             *)
(***************************************************************************)

\* C17: the state is one whole record: a load whose read does not fail
\* returns without error exactly the record of the last save, or the empty
\* record with Enabled false when there is no file, be it never written or
\* cleared; a clear whose removal does not fail reports no error, file or
\* no file, and leaves no file
C17_WholeRecord ==
  /\ (last.op = "load" /\ ~last.faulted) =>
       /\ ~last.err
       /\ since.known =>
            last.state = IF since.rec = <<>>
                         THEN [Enabled |-> FALSE, Session |-> <<>>,
                               Window |-> <<>>, Snapshot |-> <<>>]
                         ELSE since.rec[1]
  /\ (last.op = "clear" /\ ~last.faulted) =>
       /\ ~last.err
       /\ stateFile = <<>>
  /\ (last.op = "save" /\ ~last.err) =>
       /\ stateFile # <<>>
       /\ LoadState(World(stateFile, wins), NoFault).state = last.state

\* a record whose session name and snapshot need escaping was saved and
\* loaded back
C17_Witness ==
  /\ last.op = "load"
  /\ ~last.faulted
  /\ since.known
  /\ since.rec # <<>>
  /\ last.state = since.rec[1]
  /\ last.state.Enabled
  /\ last.state.Session = <<"\\", "\"">>
  /\ last.state.Snapshot = <<"\\">>

(***************************************************************************)
(* The normal apply path (Spec)                                            *)
(***************************************************************************)

\* the step is an apply that finds the state Enabled in the snapshot's
\* window, with at least two live panes and a snapshot that has one leaf
\* per live pane
NormalApplyStep ==
  /\ last'.op = "apply"
  /\ stateFile # <<>>
  /\ persisted(stateFile).Enabled
  /\ persisted(stateFile).Session = sessionName(cur)
  /\ persisted(stateFile).Window = windowIndex(cur)
  /\ wins[cur].panes >= 2
  /\ leavesMatch(persisted(stateFile).Snapshot, wins[cur])

\* the percent the option text configures
configuredPercent(opt) ==
  IF isInteger(opt) /\ integerOf(opt) \in 10..95 THEN integerOf(opt) ELSE 65

\* the snapshot decoded, the focused pane zoomed to the percent, re-encoded
zoomedSnapshot(snapshot, focused, zoomPercent) ==
  LET tree   == ParseLayout(snapshot, <<>>)
      zoomed == Resize(tree.heap, tree.node, focused, zoomPercent)
  IN BuildLayout(zoomed.heap, zoomed.node)

\* C18: the normal apply path - an apply that finds the state Enabled, in
\* the snapshot's session and window, with a live pane count of at least 2
\* that equals the leaf count of the decodable snapshot, sends the host,
\* when the host accepts the command, exactly one command: a select-layout
\* whose text is the encoding of the snapshot's tree with the focused pane
\* resized to the configured percent; unless a call fails the host accepts
\* it, the window takes that layout, the record stays and no error is
\* returned
C18_NormalApply ==
  [][NormalApplyStep =>
       /\ (last'.cmds # <<>> /\ last'.cmds[1].ok) =>
            /\ Len(last'.cmds) = 1
            /\ last'.cmds[1].cmd = "select-layout"
            /\ (\A i \in 1..Len(last'.fails) :
                  last'.fails[i] # "GetZoomPercent") =>
                 last'.cmds[1].arg =
                   zoomedSnapshot(persisted(stateFile).Snapshot,
                                  wins[cur].active,
                                  configuredPercent(option))
            /\ ~last'.err
       /\ ~last'.faulted =>
            /\ last'.path = "zoom"
            /\ last'.cmds # <<>>
            /\ last'.cmds[1].ok
            /\ stateFile' = stateFile]_vars

\* a three-pane window was zoomed on a pane other than its first, at a
\* configured percent other than the default
C18_Witness ==
  /\ last.op = "apply"
  /\ last.path = "zoom"
  /\ ~last.err
  /\ ~last.faulted
  /\ Len(last.cmds) = 1
  /\ last.cmds[1].cmd = "select-layout"
  /\ last.cmds[1].ok
  /\ wins[cur].panes = 3
  /\ wins[cur].active # paneIDs(cur, 3)[1]
  /\ option = <<"8", "0">>
  /\ stateFile # <<>>
  /\ last.cmds[1].arg =
       zoomedSnapshot(persisted(stateFile).Snapshot, wins[cur].active, 80)
  /\ last.cmds[1].arg # persisted(stateFile).Snapshot

(***************************************************************************)
(* The shares at a resized split level (SpecZoom)                          *)
(***************************************************************************)

RECURSIVE nestedLevels(_, _, _)
\* the nodes below n that the nested zoom resizes: down the children
\* holding the pane, as long as they are splits of two or more
nestedLevels(h, n, paneID) ==
  LET i == activeChild(h, n, paneID) IN
  IF i = 0 THEN {}
  ELSE LET child == h[n].Children[i] IN
       IF Len(h[child].Children) > 1 /\ activeChild(h, child, paneID) > 0
       THEN {child} \cup nestedLevels(h, child, paneID)
       ELSE {}

\* the split nodes of the tree rooted at n whose children the zoom on the
\* pane resizes
resizedLevels(h, n, paneID) ==
  (IF Len(h[n].Children) > 1 /\ activeChild(h, n, paneID) > 0
   THEN {n} ELSE {})
  \cup nestedLevels(h, n, paneID)

\* the size of node n along its own split axis
ownSize(h, n) ==
  IF h[n].SplitType = SplitHorizontal THEN h[n].Width ELSE h[n].Height

\* what is left of node n for its children once the borders are taken
availableAt(h, n) == ownSize(h, n) - (Len(h[n].Children) - 1)

\* the sizes of the children of n along its split axis
childSizes(h, n) ==
  [i \in 1..Len(h[n].Children) |-> sizeAlong(h, n, h[n].Children[i])]

\* C19: rounding goes to the target - when every node of the input has
\* positive size, at every split level the zoom resizes (n >= 2 children)
\* the children's new sizes along the split axis sum to the node's size
\* less one border per gap (available), and the child holding the target
\* gets at least floor(available * p / 100) and less than n - 1 more
C19_RoundingToTarget ==
  (Zoomed /\ Positive(inHeap, inRoot)) =>
    \A n \in resizedLevels(heap, outRoot, target) :
      LET a     == activeChild(heap, n, target)
          share == (availableAt(heap, n) * percent) \div 100
      IN /\ SumSeq(childSizes(heap, n)) = availableAt(heap, n)
         /\ childSizes(heap, n)[a] >= share
         /\ childSizes(heap, n)[a] - share < Len(heap[n].Children) - 1

RECURSIVE nestedPairs(_, _, _, _, _)
\* nestedLevels, each node with the node of the input tree it is the copy of
nestedPairs(hi, ni, ho, no, paneID) ==
  LET i == activeChild(ho, no, paneID) IN
  IF i = 0 THEN {}
  ELSE LET ci == hi[ni].Children[i]
           co == ho[no].Children[i]
       IN IF Len(ho[co].Children) > 1 /\ activeChild(ho, co, paneID) > 0
          THEN {<<ci, co>>} \cup nestedPairs(hi, ci, ho, co, paneID)
          ELSE {}

\* resizedLevels, each node with the node of the input tree it is the copy of
resizedPairs(hi, ni, ho, no, paneID) ==
  (IF Len(ho[no].Children) > 1 /\ activeChild(ho, no, paneID) > 0
   THEN {<<ni, no>>} ELSE {})
  \cup nestedPairs(hi, ni, ho, no, paneID)

\* C20: siblings shrink proportionally - at every resized split level whose
\* non-target children's original sizes sum to more than 0, each non-target
\* child's new size is floor(original size * remaining / that sum), with
\* remaining = available - floor(available * p / 100); so a sibling no
\* larger than another before the zoom is no larger after it, and siblings
\* of equal original size get equal new sizes
C20_ProportionalSiblings ==
  Zoomed =>
    \A q \in resizedPairs(inHeap, inRoot, heap, outRoot, target) :
      LET a         == activeChild(heap, q[2], target)
          n         == Len(heap[q[2]].Children)
          orig      == childSizes(inHeap, q[1])
          new       == childSizes(heap, q[2])
          others    == SumSeq([i \in 1..n |-> IF i = a THEN 0 ELSE orig[i]])
          available == availableAt(heap, q[2])
          remaining == available - ((available * percent) \div 100)
      IN others > 0 =>
           /\ \A i \in (1..n) \ {a} :
                new[i] = (orig[i] * remaining) \div others
           /\ \A i, j \in (1..n) \ {a} :
                /\ orig[i] <= orig[j] => new[i] <= new[j]
                /\ orig[i] = orig[j] => new[i] = new[j]

(***************************************************************************)
(* The geometry of the zoomed tree (SpecZoom)                              *)
(***************************************************************************)

RECURSIVE CrossAxis(_, _)
\* every split node below and including n: each child has the node's own
\* size on the axis the node is not split along
CrossAxis(h, n) ==
  LET kids == h[n].Children IN
  /\ h[n].SplitType = SplitHorizontal =>
       \A i \in 1..Len(kids) : h[kids[i]].Height = h[n].Height
  /\ h[n].SplitType = SplitVertical =>
       \A i \in 1..Len(kids) : h[kids[i]].Width = h[n].Width
  /\ \A i \in 1..Len(kids) : CrossAxis(h, kids[i])

\* C21: the non-split axis follows the parent - when in the input tree each
\* child's size on the non-split axis equals its parent's, so it does at
\* every split node of the tree the zoom transform returns
C21_CrossAxisFollows ==
  (Zoomed /\ CrossAxis(inHeap, inRoot)) => CrossAxis(heap, outRoot)

\* a column holding stacked panes was given another width, and the panes
\* stacked in it have that width
C21_Witness ==
  /\ Zoomed
  /\ CrossAxis(inHeap, inRoot)
  /\ heap[outRoot].SplitType = SplitHorizontal
  /\ \E i \in 1..Len(heap[outRoot].Children) :
       LET c == heap[outRoot].Children[i]
           d == inHeap[inRoot].Children[i]
       IN /\ heap[c].SplitType = SplitVertical
          /\ Len(heap[c].Children) >= 2
          /\ heap[c].Width # inHeap[d].Width
          /\ \A j \in 1..Len(heap[c].Children) :
               heap[heap[c].Children[j]].Width = heap[c].Width

RECURSIVE Offsets(_, _)
\* every split node below and including n: the first child starts at the
\* node's offset along the split axis, each next child one border after the
\* end of the previous one, and every child is at the node's offset on the
\* other axis
Offsets(h, n) ==
  LET kids == h[n].Children
      along(c) == IF h[n].SplitType = SplitHorizontal THEN h[c].X ELSE h[c].Y
      cross(c) == IF h[n].SplitType = SplitHorizontal THEN h[c].Y ELSE h[c].X
  IN /\ h[n].SplitType # SplitNone =>
          /\ Len(kids) >= 1 => along(kids[1]) = along(n)
          /\ \A i \in 2..Len(kids) :
               along(kids[i])
                 = along(kids[i - 1]) + sizeAlong(h, n, kids[i - 1]) + 1
          /\ \A i \in 1..Len(kids) : cross(kids[i]) = cross(n)
     /\ \A i \in 1..Len(kids) : Offsets(h, kids[i])

\* C22: offsets stay consistent - when the input tree's absolute offsets are
\* consistent, so are those of the tree the zoom transform returns, at every
\* depth, the descendants of moved children included
C22_OffsetsConsistent ==
  (Zoomed /\ Offsets(inHeap, inRoot)) => Offsets(heap, outRoot)

\* C23: no pane is shrunk away - when every node of the input tree has at
\* least one column and one row and the input conserves sizes, so has every
\* node of the tree the zoom transform returns, for every target and every
\* percent from 10 to 95
C23_NoPaneShrunkAway ==
  (Zoomed /\ Positive(inHeap, inRoot) /\ Conserved(inHeap, inRoot)
   /\ percent \in MinZoomPercent..MaxZoomPercent)
  => Positive(heap, outRoot)

(***************************************************************************)
(* The record and the window (Spec)                                        *)
(***************************************************************************)

\* C24: zoom state is scoped to one window - a toggle or an apply sends the
\* host a select-layout only while the live session and window are those of
\* the persisted record (for an enable, the record it writes); so a disable
\* never hands a snapshot captured in one window to another window
C24_WindowScoped ==
  [][(last'.op \in {"apply", "toggle"} /\ layoutsSent(last'.cmds) # <<>>) =>
       \E file \in {IF stateFile # <<>> THEN stateFile ELSE stateFile'} :
         /\ file # <<>>
         /\ persisted(file).Session = sessionName(cur)
         /\ persisted(file).Window = windowIndex(cur)]_vars

(***************************************************************************)
(* Leaving the Enabled state (SpecEdited)                                  *)
(***************************************************************************)

\* the step is an apply that finds the state Enabled
EnabledApplyStep ==
  /\ last'.op = "apply"
  /\ stateFile # <<>>
  /\ persisted(stateFile).Enabled

sentAfter(p) ==
  IF procs'.run[p].pc = "idle" THEN last'.cmds ELSE procs'.run[p].cmds

\* the step is one of process p, which runs apply
ApplyStepOf(p) ==
  /\ RunningAs(p, "apply")
  /\ procs'.run[p] # procs.run[p]

\* C26: disable is final under interleaving - once a disable has completed
\* (the record is gone and no toggle is running) the state stays Disabled
\* until the next enable: no step of an apply, whenever that apply read the
\* record, writes a record or sends the host a command
C26_DisableFinal ==
  [][\A p \in Procs :
       (/\ ApplyStepOf(p)
        /\ stateFile = <<>>
        /\ \A q \in Procs : ~RunningAs(q, "toggle"))
       => /\ stateFile' = <<>>
          /\ Len(sentAfter(p)) = Len(procs.run[p].cmds)]_vars

\* no handler is running
Quiet == \A p \in Procs : ~Running(p)

\* apply run on its own from the state as it is
NextApplyAlone == cmdApplyRun(World(stateFile, wins), cur, option, NoFault)

\* C27: racing applies are benign - whatever way applies interleave, a step
\* of an apply that finds the record Enabled leaves it Enabled with a
\* snapshot that decodes; and once the handlers have returned, the next
\* apply, run alone in the record's window with two or more panes, reports
\* no error and sends one select-layout, which the host accepts: the
\* encoding of the persisted snapshot's tree with the focused pane resized
\* to the percent, the snapshot having one leaf per live pane
C27_RacingApplies ==
  /\ [][\A p \in Procs :
          (ApplyStepOf(p) /\ stateFile # <<>> /\ persisted(stateFile).Enabled)
          => /\ stateFile' # <<>>
             /\ persisted(stateFile').Enabled
             /\ ~ParseLayout(persisted(stateFile').Snapshot, <<>>).err]_vars
  /\ [](( /\ Quiet
          /\ stateFile # <<>>
          /\ persisted(stateFile).Enabled
          /\ persisted(stateFile).Window = windowIndex(cur)
          /\ wins[cur].panes >= 2)
        => /\ ~NextApplyAlone.err
           /\ NextApplyAlone.m.file # <<>>
           /\ leavesMatch(persisted(NextApplyAlone.m.file).Snapshot,
                          wins[cur])
           /\ NextApplyAlone.m.cmds =
                <<[cmd |-> "select-layout",
                   arg |-> zoomedSnapshot(
                             persisted(NextApplyAlone.m.file).Snapshot,
                             wins[cur].active, configuredPercent(option)),
                   ok  |-> TRUE]>>)

\* the anomaly of the race: the handlers have returned and the record holds,
\* as its snapshot, a layout another apply had zoomed (the leaf count is the
\* live one, the sizes are not the host's own)
C27_Witness ==
  /\ Quiet
  /\ last.op = "apply"
  /\ stateFile # <<>>
  /\ persisted(stateFile).Enabled
  /\ persisted(stateFile).Window = windowIndex(cur)
  /\ wins[cur].panes >= 2
  /\ leavesMatch(persisted(stateFile).Snapshot, wins[cur])
  /\ persisted(stateFile).Snapshot
       # hostWindow(cur, wins[cur].panes, wins[cur].active).layout

\* ---------------------------------------------------------------------
\* A toggle that fails while enabling (Spec)
\* ---------------------------------------------------------------------

\* C28: a failed enable changes nothing - a toggle that starts with no
\* Enabled record and returns an error leaves no Enabled record behind
C28_FailedEnableChangesNothing ==
  [][(/\ last'.op = "toggle"
      /\ last'.err
      /\ ~LoadState(World(stateFile, wins), NoFault).state.Enabled)
     => ~LoadState(World(stateFile', wins'), NoFault).state.Enabled]_vars

\* ---------------------------------------------------------------------
\* The snapshot between enable and disable (Spec)
\* ---------------------------------------------------------------------

\* the step is an apply that finds the state Enabled with a snapshot that
\* has one leaf per live pane
MatchingApplyStep ==
  /\ last'.op = "apply"
  /\ stateFile # <<>>
  /\ persisted(stateFile).Enabled
  /\ leavesMatch(persisted(stateFile).Snapshot, wins[cur])

\* C29: the snapshot is captured once - an apply that finds the state
\* Enabled and the live pane count equal to the snapshot's leaf count
\* leaves the state file as it is; while no pane was opened or closed since
\* the enable, the snapshot it finds is the text captured by the enable;
\* and every layout it sends with the percent read is the encoding of that
\* snapshot resized for the focused pane at the configured percent,
\* whatever layout the window showed (so focusing A, B, A sends for A what
\* focusing A directly sends), followed at most by the snapshot itself
\* when the host refused it
C29_CapturedOnce ==
  [][MatchingApplyStep =>
       /\ stateFile' = stateFile
       /\ (since.win # 0 /\ ~since.topo) =>
            persisted(stateFile).Snapshot = since.text
       /\ (\A i \in 1..Len(last'.fails) : last'.fails[i] # "GetZoomPercent")
            => \A i \in 1..Len(layoutsSent(last'.cmds)) :
                 layoutsSent(last'.cmds)[i] =
                   IF i = 1
                   THEN zoomedSnapshot(persisted(stateFile).Snapshot,
                                       wins[cur].active,
                                       configuredPercent(option))
                   ELSE persisted(stateFile).Snapshot]_vars

\* an apply zoomed a pane of a three-pane window from the snapshot the
\* enable captured, the window showing another layout than the snapshot
C29_Witness ==
  /\ last.op = "apply"
  /\ last.path = "zoom"
  /\ ~last.err
  /\ layoutAccepted(last.cmds)
  /\ wins[cur].panes = 3
  /\ since.win = cur
  /\ ~since.topo
  /\ stateFile # <<>>
  /\ persisted(stateFile).Enabled
  /\ persisted(stateFile).Snapshot = since.text
  /\ last.since = since
  /\ wins[cur].layout # since.text
  /\ wins[cur].layout =
       zoomedSnapshot(since.text, wins[cur].active, configuredPercent(option))

\* ---------------------------------------------------------------------
\* The degraded path (SpecEdited)
\* ---------------------------------------------------------------------

RECURSIVE resizesSent(_)
\* the arguments of the resize-pane commands among cmds, in order
resizesSent(cmds) ==
  IF cmds = <<>> THEN <<>>
  ELSE (IF cmds[1].cmd = "resize-pane" THEN <<cmds[1].arg>> ELSE <<>>)
       \o resizesSent(Tail(cmds))

\* groups (columns or rows of key left or top) partition the panes: every
\* pane is in exactly one group, the group of its own offset, and the
\* groups come in ascending order of offset
Grouped(panes, groups, byLeft) ==
  /\ \A i \in 1..Len(panes) :
       Cardinality({<<g, k>> \in (1..Len(groups)) \X (1..Len(panes)) :
                      /\ k <= Len(groups[g].panes)
                      /\ groups[g].panes[k] = panes[i]}) = 1
  /\ \A g \in 1..Len(groups) :
       /\ groups[g].panes # <<>>
       /\ \A k \in 1..Len(groups[g].panes) :
            (IF byLeft THEN groups[g].panes[k].Left
                       ELSE groups[g].panes[k].Top)
              = (IF byLeft THEN groups[g].left ELSE groups[g].top)
  /\ \A g \in 1..(Len(groups) - 1) :
       (IF byLeft THEN groups[g].left ELSE groups[g].top)
         < (IF byLeft THEN groups[g + 1].left ELSE groups[g + 1].top)

\* what the degraded path has to send for the panes listed, the first
\* active one and the percent: the width resize, then the height resize
FallbackResizes(panes, active, zoomPercent) ==
  LET columns   == findColumns(panes)
      colPanes  == selectPanes(panes, active.Left, TRUE)
      rows      == findRowsInColumn(colPanes)
      colHeight == SumSeq([i \in 1..Len(colPanes) |-> colPanes[i].Height])
                   + (Len(rows) - 1)
  IN [wide |-> Len(columns) > 1,
      x    |-> GoDiv(MaxWidth * zoomPercent, 100),
      colIDs |-> {colPanes[i].ID : i \in 1..Len(colPanes)},
      tall |-> Len(rows) > 1,
      y    |-> GoDiv(colHeight * zoomPercent, 100),
      rowIDs |-> {colPanes[i].ID : i \in {j \in 1..Len(colPanes) :
                                           colPanes[j].Top = active.Top}}]

\* the resize arguments sent agree with what is expected
ResizesAsExpected(sent, want) ==
  /\ Len(sent) <= 2
  /\ \A i \in 1..Len(sent) :
       \/ /\ sent[i][1] = "-x"
          /\ want.wide
          /\ sent[i][2] \in want.colIDs
          /\ sent[i][3] = want.x
          /\ i = 1
       \/ /\ sent[i][1] = "-y"
          /\ want.tall
          /\ sent[i][2] \in want.rowIDs
          /\ sent[i][3] = want.y
          /\ i = Len(sent)
  /\ Len(sent) = 2 => sent[1][1] # sent[2][1]

\* C30: the degraded path - it groups the live panes into columns by equal
\* left offset (each pane in exactly one column, columns in ascending left
\* order) and the active column's panes into rows by equal top offset
\* (ascending), and sends at most two resize commands: a width resize to
\* floor(windowWidth * p / 100) on a pane of the active pane's column, only
\* when there is more than one column, and a height resize to
\* floor(columnHeight * p / 100) on a pane of the active pane's row, only
\* when the active column has more than one row; with no call failing it
\* sends each of them whenever its condition holds
C30_DegradedFallback ==
  [][(last'.path = "fallback"
      /\ \A i \in 1..Len(last'.fails) :
           last'.fails[i] # "fallback.GetZoomPercent")
     => \E panes \in {hostPanes(wins[cur])} :
          \E active \in {panes[i] : i \in {j \in 1..Len(panes) :
                                             panes[j].Active}} :
            \E want \in {FallbackResizes(panes, active,
                                         configuredPercent(option))} :
              /\ Grouped(panes, findColumns(panes), TRUE)
              /\ Grouped(selectPanes(panes, active.Left, TRUE),
                         findRowsInColumn(
                           selectPanes(panes, active.Left, TRUE)), FALSE)
              /\ ResizesAsExpected(resizesSent(last'.cmds), want)
              /\ ~last'.faulted =>
                   Len(resizesSent(last'.cmds))
                     = (IF want.wide THEN 1 ELSE 0)
                       + (IF want.tall THEN 1 ELSE 0)]_vars

\* the degraded path resized a column and a row of a three-pane window
C30_Witness ==
  /\ last.path = "fallback"
  /\ ~last.err
  /\ ~last.faulted
  /\ wins[cur].panes = 3
  /\ Len(resizesSent(last.cmds)) = 2
  /\ resizesSent(last.cmds)[1][1] = "-x"
  /\ resizesSent(last.cmds)[2][1] = "-y"
====
